---- MODULE Spec2Model ----
(***************************************************************************)
(* A model of miner-cli's concurrent multi-host command dispatcher         *)
(* (internal/client/cgminer.go), of its IP-range expansion                 *)
(* (internal/iprange/parser.go), of its command line (cmd/root.go) and of  *)
(* its output formatters (internal/output/formatter.go).                   *)
(*                                                                         *)
(* Specifications:                                                         *)
(*   Spec           one Client.ExecuteCommand run: the producer, the pool  *)
(*                  of workers, the two channels and the WaitGroup         *)
(*   SpecFair       Spec under fair scheduling of producer and workers     *)
(*   SpecNewClient  the constructor NewClient as a function of its inputs  *)
(*   SpecJob        one Client.executeJob call as a function of its job    *)
(*   SpecCLI        one executeCommand invocation of the command line,     *)
(*                  with what the formatters write                         *)
(*   SpecRange      one ParseIPRange call, its loops taken step by step    *)
(*   SpecMulti      one ParseMultipleRanges call over a list of specs      *)
(***************************************************************************)
EXTENDS Integers, Sequences, FiniteSets, Bags, TLC

VARIABLES
    \* ---- Client.ExecuteCommand ------------------------------------------
    c,              \* the Client: [timeout, workers]
    ips,            \* ExecuteCommand's argument ips
    command,        \* ExecuteCommand's argument command
    params,         \* ExecuteCommand's argument params
    ctxDone,        \* ctx.Done() is closed
    preCancelled,   \* history: ctx was already cancelled when the call began
    mpc,            \* where ExecuteCommand's own goroutine stands
    spawned,        \* the loop counter i of the spawning loop
    enq,            \* how many of ips have been sent on jobs
    jobs,           \* the buffered channel jobs (its queue)
    jobsClosed,     \* close(jobs) has run
    results,        \* the buffered channel results (its queue)
    resultsClosed,  \* close(results) has run
    wg,             \* the WaitGroup's counter
    wpc,            \* each worker goroutine's position
    wjob,           \* each worker's loop variable j
    invoked,        \* history: how often executeJob was entered, per ip
    calls,          \* history: the protocol calls made, a bag of <<ip, method>>
    allResults,     \* the report ExecuteCommand returns
    \* ---- NewClient ------------------------------------------------------
    ncIn,           \* NewClient's arguments [timeout, workers]
    ncOut,          \* the Client it returned, or NoClient before the call
    \* ---- Client.executeJob on its own -----------------------------------
    ejJob,          \* executeJob's argument j
    ejOut,          \* what the call came to: [state, result, wire]
    \* ---- the command line: executeCommand --------------------------------
    cliIn,          \* the flags and the subcommand of one invocation
    cliOut,         \* how it ended: [state, err, report, stdout]
    now,            \* the time since executeCommand made its context, in seconds
    left,           \* what remains of each worker's running executeJob, in seconds
    \* ---- ParseIPRange / ParseMultipleRanges -----------------------------
    top,            \* the function called: "ParseIPRange" or "ParseMultipleRanges"
    inputs,         \* the specs given (one for ParseIPRange)
    idx,            \* ParseMultipleRanges' position in inputs
    ppc,            \* where the parser stands
    net,            \* parseCIDR's ipNet: [IP, Mask]
    lim,            \* parseRange's endInt
    cur,            \* the loop variable: ip (parseCIDR) or i (parseRange)
    acc,            \* the slice ips under construction
    ret,            \* what the current ParseIPRange call returned
    parsed,         \* history: the lists the ParseIPRange calls returned, in order
    allIPs,         \* ParseMultipleRanges' allIPs
    seenIPs,        \* ParseMultipleRanges' seenIPs (the keys mapped to true)
    out             \* what ParseMultipleRanges returned

dispVars == <<c, ips, command, params, ctxDone, preCancelled, mpc, spawned, enq,
              jobs, jobsClosed, results, resultsClosed, wg, wpc, wjob, invoked, calls,
              allResults>>
ncVars == <<ncIn, ncOut>>
jobVars == <<ejJob, ejOut>>
cliVars == <<cliIn, cliOut, now, left>>
parseVars == <<top, inputs, idx, ppc, net, lim, cur, acc, ret, parsed, allIPs, seenIPs,
              out>>
vars == <<dispVars, ncVars, jobVars, cliVars, parseVars>>

----------------------------------------------------------------------------
(* Bounds of the model.                                                    *)

MaxHosts == 3        \* the longest host list of a run
MaxWorkers == 2      \* the largest pool of a run
WorkerSpan == 12     \* NewClient is tried with workers in -WorkerSpan..WorkerSpan
MaxHostBits == 8     \* the widest CIDR block expanded in full: a /(32 - MaxHostBits)
MaxSpan == 16        \* the widest start-end range expanded in full
MaxSpecs == 3        \* the longest spec list given to ParseMultipleRanges
MultiCap == 8        \* the memory of a ParseMultipleRanges run, in addresses

----------------------------------------------------------------------------
(* internal/client/cgminer.go                                              *)

DefaultWorkers == 10
DefaultPort == 4028

\* time.Duration values the constructor is called with, in seconds.
Timeouts == {0, 1, 2, 5}

NewClientOffByOne(timeout, workers) ==
    [timeout |-> timeout,
     workers |-> IF workers < 0 THEN DefaultWorkers ELSE workers]

NewClient(timeout, workers) ==
    [timeout |-> timeout,
     workers |-> IF workers <= 0 THEN DefaultWorkers ELSE workers]

\* The hosts a run is aimed at, and what each of them does to a protocol
\* call: a host's answer is its own, whatever the other hosts do.
Hosts == {"10.0.0.1", "10.0.0.2"}

UpHosts == {"10.0.0.1", "10.0.0.3", "10.0.0.4", "10.0.0.5", "10.0.0.6"}

HostAnswer(ip) ==
    IF ip \in UpHosts
    THEN [up |-> TRUE, err |-> "", pools |-> 2]
    ELSE [up |-> FALSE, err |-> "connection refused", pools |-> 0]

\* A parameter bag: a function from some keys to tagged values.
NoParams == [k \in {} |-> 0]
IntParam(n) == [t |-> "int", v |-> n]
StrParam(s) == [t |-> "string", v |-> s]

HasInt(p, k) == k \in DOMAIN p /\ p[k].t = "int"
HasStr(p, k) == k \in DOMAIN p /\ p[k].t = "string"

GetAvailableCommands ==
    <<"summary", "devs", "pools", "stats", "version", "switchpool",
      "enablepool", "disablepool", "addpool", "removepool", "restart",
      "quit", "custom">>

job(ip, port, cmd, p) == [ip |-> ip, port |-> port, command |-> cmd, params |-> p]

\* An error is the sequence of its message's parts, <<>> for nil; a response
\* is a sequence too, <<>> when unset.
NoError == <<>>
NoResponse == <<>>

\* One protocol call on the job's host.  A typed call (miner.Summary() and
\* the like) that fails hands back a nil pointer of its own type next to the
\* error, which is a non-nil interface{} once stored in response.
Call(j, method) ==
    LET h == HostAnswer(j.ip)
    IN  IF h.up THEN [err |-> NoError, payload |-> <<method, j.ip>>]
        ELSE [err |-> <<h.err>>, payload |-> <<"(nil)", method>>]

\* What one case of executeJob's switch comes to: err and response as the
\* code leaves them, wire the protocol calls made in order, panic whether
\* the goroutine panicked instead.
Outcome(err, response, wire) ==
    [err |-> err, response |-> response, wire |-> wire, panic |-> FALSE]

Panic(wire) ==
    [err |-> NoError, response |-> NoResponse, wire |-> wire, panic |-> TRUE]

\* A case that fails on its parameters: err = fmt.Errorf(...), and nothing
\* else happens.
ParamErrorAfterCall(msg) == Outcome(msg, NoResponse, <<"pools">>)

ParamError(msg) == Outcome(msg, NoResponse, <<>>)

\* default: err = fmt.Errorf("unknown command: %s", j.command)
UnknownCommandCallsMiner(name) == Outcome(<<"unknown command:", name>>, NoResponse, <<name>>)

UnknownCommand(name) == Outcome(<<"unknown command:", name>>, NoResponse, <<>>)

Mutation(j, method, done, before) ==
    LET m == Call(j, method)
    IN  Outcome(m.err, IF m.err = NoError THEN <<done>> ELSE NoResponse,
                Append(before, method))

\* switchpool, enablepool, disablepool, removepool
PoolCommand(j, method, done) ==
    IF HasInt(j.params, "pool")
    THEN LET poolID == j.params["pool"].v
             p == Call(j, "pools")
             len == HostAnswer(j.ip).pools
         IN  IF p.err # NoError
             THEN Outcome(<<"failed to get pools">> \o p.err, NoResponse, <<"pools">>)
             ELSE IF poolID < len
             THEN IF poolID < 0
                  THEN Panic(<<"pools">>)      \* pools[poolID]: index out of range
                  ELSE Mutation(j, method, done, <<"pools">>)
             ELSE Outcome(<<"pool ID", ToString(poolID), "not found">>, NoResponse,
                          <<"pools">>)
    ELSE ParamError(<<j.command, "command requires 'pool' parameter">>)

\* customCommand: miner.RawCall; (nil, err) when it fails
customCommand(j, cmd) ==
    LET m == Call(j, cmd)
    IN  Outcome(m.err, IF m.err = NoError THEN m.payload ELSE NoResponse, <<cmd>>)

Dispatch(j) ==
    CASE j.command \in {"summary", "devs", "pools", "stats", "version"} ->
            LET m == Call(j, j.command)
            IN  Outcome(m.err, m.payload, <<j.command>>)
      [] j.command = "switchpool" -> PoolCommand(j, "switchpool", "Pool switched successfully")
      [] j.command = "enablepool" -> PoolCommand(j, "enablepool", "Pool enabled successfully")
      [] j.command = "disablepool" -> PoolCommand(j, "disablepool", "Pool disabled successfully")
      [] j.command = "removepool" -> PoolCommand(j, "removepool", "Pool removed successfully")
      [] j.command = "addpool" ->
            IF HasStr(j.params, "url") /\ HasStr(j.params, "user") /\ HasStr(j.params, "pass")
            THEN Mutation(j, "addpool", "Pool added successfully", <<>>)
            ELSE ParamError(<<"addpool requires 'url', 'user', and 'pass' parameters">>)
      [] j.command = "restart" -> Mutation(j, "restart", "Miner restarting", <<>>)
      [] j.command = "quit" -> Mutation(j, "quit", "Miner quitting", <<>>)
      [] j.command = "custom" ->
            IF HasStr(j.params, "cmd")
            THEN customCommand(j, j.params["cmd"].v)
            ELSE ParamError(<<"custom command requires 'cmd' parameter">>)
      [] OTHER -> UnknownCommand(j.command)

\* Result: Duration is "" when unset and "elapsed" when executeJob measured it.
Result(ip, port, cmd, response, error, duration) ==
    [IP |-> ip, Port |-> port, Command |-> cmd, Response |-> response,
     Error |-> error, Duration |-> duration]

\* an executeJob that stores response whether or not err is nil
executeJobKeepsResponse(j) ==
    LET d == Dispatch(j)
    IN  Result(j.ip, j.port, j.command, d.response, d.err, "elapsed")

executeJob(j) ==
    LET d == Dispatch(j)
    IN  IF d.err # NoError
        THEN Result(j.ip, j.port, j.command, NoResponse, d.err, "elapsed")
        ELSE Result(j.ip, j.port, j.command, d.response, NoError, "elapsed")

ContextCancelled == <<"context cancelled">>

cancelledResult(j) ==
    Result(j.ip, j.port, j.command, NoResponse, ContextCancelled, "")

----------------------------------------------------------------------------
(* Client.ExecuteCommand and Client.worker                                 *)

\* What a run is asked to do: <<command, params>>.
PoolParam(n) == [k \in {"pool"} |-> IntParam(n)]

Requests ==
    { <<"summary", NoParams>>,
      <<"switchpool", NoParams>>,
      <<"switchpool", PoolParam(1)>>,
      <<"switchpool", PoolParam(-1)>>,
      <<"reboot", NoParams>> }

SeqsUpTo(S, n) == UNION { [1..k -> S] : k \in 0..n }

NoJob == job("", 0, "", NoParams)

Pool == 1..c.workers

Running == mpc \notin {"returned", "crashed"}

\* The parked values of the variables the other specifications own.
NoClient == [timeout |-> 0, workers |-> 0]
NewClientIdle == ncIn = NoClient /\ ncOut = NoClient
NoOutcome == [state |-> "none", result |-> Result("", 0, "", NoResponse, NoError, ""),
              wire |-> <<>>]
JobIdle == ejJob = NoJob /\ ejOut = NoOutcome
NoFlags == [ipRanges |-> <<>>, workers |-> 0, timeout |-> 0, outputFormat |-> "",
            verbose |-> FALSE, command |-> "", poolID |-> 0]
NoExit == [state |-> "none", err |-> NoError, report |-> <<>>, stdout |-> <<>>]
ClockIdle == now = 0 /\ left = <<>>
CLIIdle == cliIn = NoFlags /\ cliOut = NoExit /\ ClockIdle
NoNet == [IP |-> <<>>, Mask |-> <<>>]
NoReturn == [state |-> "none", err |-> NoError, IPs |-> <<>>]
ParserIdle ==
    /\ top = "" /\ inputs = <<>> /\ idx = 0 /\ ppc = "idle" /\ net = NoNet
    /\ lim = <<>> /\ cur = <<>> /\ acc = <<>> /\ ret = NoReturn /\ parsed = <<>>
    /\ allIPs = <<>> /\ seenIPs = {} /\ out = NoReturn

Init ==
    /\ \E w \in 1..MaxWorkers : c = NewClient(2, w)
    /\ ips \in SeqsUpTo(Hosts, MaxHosts)
    /\ \E r \in Requests : command = r[1] /\ params = r[2]
    /\ ctxDone \in BOOLEAN
    /\ preCancelled = ctxDone
    /\ mpc = "spawn"
    /\ spawned = 0
    /\ enq = 0
    /\ jobs = <<>>
    /\ jobsClosed = FALSE
    /\ results = <<>>
    /\ resultsClosed = FALSE
    /\ wg = 0
    /\ wpc = [w \in 1..c.workers |-> "unborn"]
    /\ wjob = [w \in 1..c.workers |-> NoJob]
    /\ invoked = [h \in Hosts |-> 0]
    /\ calls = EmptyBag
    /\ allResults = <<>>
    /\ NewClientIdle
    /\ JobIdle
    /\ CLIIdle
    /\ ParserIdle

\* for i := 0; i < c.workers; i++ { wg.Add(1); go c.worker(...) }
Spawn ==
    /\ mpc = "spawn"
    /\ spawned < c.workers
    /\ wg' = wg + 1
    /\ wpc' = [wpc EXCEPT ![spawned + 1] = "range"]
    /\ spawned' = spawned + 1
    /\ mpc' = IF spawned + 1 < c.workers THEN "spawn" ELSE "enqueue"
    /\ UNCHANGED <<c, ips, command, params, ctxDone, preCancelled, enq, jobs,
                   jobsClosed, results, resultsClosed, wjob, invoked, calls,
                   allResults, ncVars, jobVars, cliVars,
                   parseVars>>

\* a submission that puts each job at the head of the queue
EnqueueAtFront ==
    /\ mpc = "enqueue"
    /\ enq < Len(ips)
    /\ Len(jobs) < Len(ips)
    /\ jobs' = <<job(ips[enq + 1], DefaultPort, command, params)>> \o jobs
    /\ enq' = enq + 1
    /\ UNCHANGED <<c, ips, command, params, ctxDone, preCancelled, mpc, spawned,
                   jobsClosed, results, resultsClosed, wg, wpc, wjob, invoked,
                   calls, allResults, ncVars, jobVars, cliVars,
                   parseVars>>

\* for _, ip := range ips { jobs <- job{...} }: a send blocks on a full buffer
Enqueue ==
    /\ mpc = "enqueue"
    /\ enq < Len(ips)
    /\ Len(jobs) < Len(ips)
    /\ jobs' = Append(jobs, job(ips[enq + 1], DefaultPort, command, params))
    /\ enq' = enq + 1
    /\ UNCHANGED <<c, ips, command, params, ctxDone, preCancelled, mpc, spawned,
                   jobsClosed, results, resultsClosed, wg, wpc, wjob, invoked,
                   calls, allResults, ncVars, jobVars, cliVars,
                   parseVars>>

\* close(jobs)
CloseJobs ==
    /\ mpc = "enqueue"
    /\ enq = Len(ips)
    /\ jobsClosed' = TRUE
    /\ mpc' = "wait"
    /\ UNCHANGED <<c, ips, command, params, ctxDone, preCancelled, spawned, enq,
                   jobs, results, resultsClosed, wg, wpc, wjob, invoked, calls,
                   allResults, ncVars, jobVars, cliVars,
                   parseVars>>

\* close(results) without waiting for the workers
CloseWithoutWait ==
    /\ mpc = "wait"
    /\ resultsClosed' = TRUE
    /\ mpc' = "collect"
    /\ UNCHANGED <<c, ips, command, params, ctxDone, preCancelled, spawned, enq,
                   jobs, jobsClosed, results, wg, wpc, wjob, invoked, calls,
                   allResults, ncVars, jobVars, cliVars, parseVars>>

\* wg.Wait(); close(results)
WaitAndClose ==
    /\ mpc = "wait"
    /\ wg = 0
    /\ resultsClosed' = TRUE
    /\ mpc' = "collect"
    /\ UNCHANGED <<c, ips, command, params, ctxDone, preCancelled, spawned, enq,
                   jobs, jobsClosed, results, wg, wpc, wjob, invoked, calls,
                   allResults, ncVars, jobVars, cliVars,
                   parseVars>>

\* for r := range results { allResults = append(allResults, r) }; return
Collect ==
    /\ mpc = "collect"
    /\ allResults' = results
    /\ results' = <<>>
    /\ mpc' = "returned"
    /\ UNCHANGED <<c, ips, command, params, ctxDone, preCancelled, spawned, enq,
                   jobs, jobsClosed, resultsClosed, wg, wpc, wjob, invoked, calls,
                   ncVars, jobVars, cliVars,
                   parseVars>>

\* a worker that takes its next job while the previous one is still running
ReceiveWhileBusy(w) ==
    /\ Running
    /\ wpc[w] \in {"range", "exec"}
    /\ jobs # <<>>
    /\ wjob' = [wjob EXCEPT ![w] = Head(jobs)]
    /\ jobs' = Tail(jobs)
    /\ wpc' = [wpc EXCEPT ![w] = "select"]
    /\ UNCHANGED <<c, ips, command, params, ctxDone, preCancelled, mpc, spawned,
                   enq, jobsClosed, results, resultsClosed, wg, invoked, calls,
                   allResults, ncVars, jobVars, cliVars,
                   parseVars>>

\* for j := range jobs: the receive
Receive(w) ==
    /\ Running
    /\ wpc[w] = "range"
    /\ jobs # <<>>
    /\ wjob' = [wjob EXCEPT ![w] = Head(jobs)]
    /\ jobs' = Tail(jobs)
    /\ wpc' = [wpc EXCEPT ![w] = "select"]
    /\ UNCHANGED <<c, ips, command, params, ctxDone, preCancelled, mpc, spawned,
                   enq, jobsClosed, results, resultsClosed, wg, invoked, calls,
                   allResults, ncVars, jobVars, cliVars,
                   parseVars>>

\* for j := range jobs: the channel is closed and drained; defer wg.Done()
Exit(w) ==
    /\ Running
    /\ wpc[w] = "range"
    /\ jobs = <<>>
    /\ jobsClosed
    /\ wpc' = [wpc EXCEPT ![w] = "exited"]
    /\ wg' = wg - 1
    /\ UNCHANGED <<c, ips, command, params, ctxDone, preCancelled, mpc, spawned,
                   enq, jobs, jobsClosed, results, resultsClosed, wjob, invoked,
                   calls, allResults, ncVars, jobVars, cliVars,
                   parseVars>>

\* A send on results: it blocks on a full buffer and panics on a closed
\* channel, which ends the process.
Send(w, r) ==
    /\ Len(results) < Len(ips) \/ resultsClosed
    /\ IF resultsClosed
       THEN mpc' = "crashed" /\ UNCHANGED results
       ELSE results' = Append(results, r) /\ UNCHANGED mpc
    /\ wpc' = [wpc EXCEPT ![w] = "range"]

SelectIgnoresContext(w) ==
    /\ Running
    /\ wpc[w] = "select"
    /\ wpc' = [wpc EXCEPT ![w] = "exec"]
    /\ invoked' = [invoked EXCEPT ![wjob[w].ip] = @ + 1]
    /\ UNCHANGED <<c, ips, command, params, ctxDone, preCancelled, mpc, spawned,
                   enq, jobs, jobsClosed, results, resultsClosed, wg, wjob,
                   calls, allResults, ncVars, jobVars, cliVars,
                   parseVars>>

\* select { case <-ctx.Done(): results <- Result{...}; continue; default: }
\* and, on default, the entry into executeJob
Select(w) ==
    /\ Running
    /\ wpc[w] = "select"
    /\ IF ctxDone
       THEN /\ Send(w, cancelledResult(wjob[w]))
            /\ UNCHANGED invoked
       ELSE /\ wpc' = [wpc EXCEPT ![w] = "exec"]
            /\ invoked' = [invoked EXCEPT ![wjob[w].ip] = @ + 1]
            /\ UNCHANGED <<mpc, results>>
    /\ UNCHANGED <<c, ips, command, params, ctxDone, preCancelled, spawned,
                   enq, jobs, jobsClosed, resultsClosed, wg, wjob,
                   calls, allResults, ncVars, jobVars, cliVars,
                   parseVars>>

WireBag(j, wire) ==
    LET n(m) == Cardinality({i \in 1..Len(wire) : wire[i] = m})
    IN  [x \in { <<j.ip, wire[i]>> : i \in 1..Len(wire) } |-> n(x[2])]

\* a worker that issues the calls of a failed job a second time
ExecuteWithRetry(w) ==
    /\ Running
    /\ wpc[w] = "exec"
    /\ LET d == Dispatch(wjob[w])
           again == IF executeJob(wjob[w]).Error # NoError
                    THEN WireBag(wjob[w], d.wire) ELSE EmptyBag
       IN  /\ calls' = calls (+) WireBag(wjob[w], d.wire) (+) again
           /\ IF d.panic
              THEN mpc' = "crashed" /\ UNCHANGED <<results, wpc>>
              ELSE Send(w, executeJob(wjob[w]))
    /\ UNCHANGED <<c, ips, command, params, ctxDone, preCancelled, spawned,
                   enq, jobs, jobsClosed, resultsClosed, wg, wjob, invoked,
                   allResults, ncVars, jobVars, cliVars,
                   parseVars>>

\* result := c.executeJob(j); results <- result.  A panic inside executeJob
\* is recovered nowhere: it ends the process.
Execute(w) ==
    /\ Running
    /\ wpc[w] = "exec"
    /\ LET d == Dispatch(wjob[w])
       IN  /\ calls' = calls (+) WireBag(wjob[w], d.wire)
           /\ IF d.panic
              THEN mpc' = "crashed" /\ UNCHANGED <<results, wpc>>
              ELSE Send(w, executeJob(wjob[w]))
    /\ UNCHANGED <<c, ips, command, params, ctxDone, preCancelled, spawned,
                   enq, jobs, jobsClosed, resultsClosed, wg, wjob, invoked,
                   allResults, ncVars, jobVars, cliVars,
                   parseVars>>

\* The caller's cancel(), or the deadline of its context.
Cancel ==
    /\ Running
    /\ ~ctxDone
    /\ ctxDone' = TRUE
    /\ UNCHANGED <<c, ips, command, params, preCancelled, mpc, spawned, enq,
                   jobs, jobsClosed, results, resultsClosed, wg, wpc, wjob,
                   invoked, calls, allResults, ncVars, jobVars, cliVars,
                   parseVars>>

Next ==
    \/ Spawn
    \/ Enqueue
    \/ CloseJobs
    \/ WaitAndClose
    \/ Collect
    \/ \E w \in Pool : Receive(w)
    \/ \E w \in Pool : Exit(w)
    \/ \E w \in Pool : Select(w)
    \/ \E w \in Pool : Execute(w)
    \/ Cancel

Spec == Init /\ [][Next]_vars

----------------------------------------------------------------------------
(* Claims on Client.ExecuteCommand (specification Spec)                    *)

Report == allResults

JobOf(k) == job(ips[k], DefaultPort, command, params)

IPCount(rs, h) == Cardinality({k \in 1..Len(rs) : rs[k].IP = h})
HostCount(h) == Cardinality({k \in 1..Len(ips) : ips[k] = h})

\* Some job of the run panics inside executeJob when it is executed.
SomeJobPanics == \E k \in 1..Len(ips) : Dispatch(JobOf(k)).panic

\* C1: for every host list (duplicates counted), pool size, operation and
\* interleaving, ExecuteCommand returns, and returns exactly one Result per
\* submitted job, the multiset of Result.IP being that of the hosts; an
\* empty host list gives an empty report.  The process never dies instead.
C1_TotalJobCoverage ==
    /\ mpc # "crashed"
    /\ mpc = "returned" =>
          /\ Len(Report) = Len(ips)
          /\ \A h \in Hosts : IPCount(Report, h) = HostCount(h)

\* The same coverage for the runs in which no job panics (C1 apart from the
\* negative pool index of C26).
JobCoverageUnlessPanic ==
    ~SomeJobPanics =>
        /\ mpc # "crashed"
        /\ mpc = "returned" =>
              /\ Len(Report) = Len(ips)
              /\ \A h \in Hosts : IPCount(Report, h) = HostCount(h)

\* C2: when the context is already cancelled before the call, executeJob is
\* never entered and no protocol call is made, every Result sent or reported
\* carries the error "context cancelled", and the report has one per host.
C2_CancelledFastFail ==
    preCancelled =>
        /\ \A h \in Hosts : invoked[h] = 0
        /\ calls = EmptyBag
        /\ \A w \in Pool : wpc[w] # "exec"
        /\ \A k \in 1..Len(results) : results[k].Error = ContextCancelled
        /\ \A k \in 1..Len(Report) : Report[k].Error = ContextCancelled
        /\ mpc # "crashed"
        /\ mpc = "returned" => Len(Report) = Len(ips)

C2_Witness ==
    /\ preCancelled
    /\ mpc = "returned"
    /\ c.workers = 2
    /\ Len(ips) = MaxHosts
    /\ Len(Report) = MaxHosts
    /\ command = "summary"

\* C3: without cancellation, what a run records for host h is what h's job
\* executed alone produces: every Result sent or reported is executeJob of
\* its own job, and once the run is over each host whose own job yields a
\* Result has that Result in the report, whatever the other jobs did.
C3_FailureIsolation ==
    ~ctxDone =>
        /\ \A k \in 1..Len(results) :
              results[k] = executeJob(job(results[k].IP, DefaultPort, command, params))
        /\ \A k \in 1..Len(Report) :
              Report[k] = executeJob(job(Report[k].IP, DefaultPort, command, params))
        /\ ~Running =>
              \A k \in 1..Len(ips) :
                  ~Dispatch(JobOf(k)).panic =>
                      \E n \in 1..Len(Report) : Report[n] = executeJob(JobOf(k))

\* The same isolation for the runs in which no job panics.
IsolationUnlessPanic == ~SomeJobPanics => C3_FailureIsolation

\* executeJob invocations begun, and those whose Result has been sent.
RECURSIVE SumOver(_, _)
SumOver(f, S) ==
    IF S = {} THEN 0
    ELSE LET x == CHOOSE y \in S : TRUE IN f[x] + SumOver(f, S \ {x})

Started == SumOver(invoked, Hosts)
Executed(rs) == Cardinality({k \in 1..Len(rs) : rs[k].Duration = "elapsed"})
Finished == Executed(results) + Executed(allResults)
Busy == {w \in Pool : wpc[w] \in {"select", "exec"}}

\* C14: with a pool of W, at most W executeJob invocations are in flight in
\* any state (those begun whose Result is not yet sent are exactly the
\* workers inside executeJob), no more than W workers exist, and a worker
\* has at most one job in progress: the jobs taken from the queue whose
\* Result is not yet sent are exactly the workers between receive and send.
C14_BoundedConcurrency ==
    /\ Started - Finished <= c.workers
    /\ Started - Finished = Cardinality({w \in Pool : wpc[w] = "exec"})
    /\ Cardinality({w \in Pool : wpc[w] # "unborn"}) = spawned
    /\ spawned <= c.workers
    /\ wg <= c.workers
    /\ (enq - Len(jobs)) - (Len(results) + Len(allResults)) = Cardinality(Busy)

C14_Witness ==
    /\ c.workers = MaxWorkers
    /\ Len(ips) = MaxHosts
    /\ \A w \in Pool : wpc[w] = "exec"
    /\ jobs # <<>>
    /\ Started - Finished = MaxWorkers

\* What the workers do with a job under a context that may be cancelled at
\* any point: once ctx is done it stays done; a worker that leaves its select
\* with ctx done (every job dequeued after the cancellation is such a one)
\* sends the "context cancelled" Result and neither enters executeJob nor
\* makes a protocol call; a worker that leaves executeJob sends that call's
\* own Result, cancelled or not.
WorkersUnderCancellation ==
    /\ ctxDone => ctxDone'
    /\ \A w \in Pool :
          (wpc[w] = "select" /\ ctxDone /\ wpc'[w] # "select") =>
              /\ results' = Append(results, cancelledResult(wjob[w]))
              /\ invoked' = invoked
              /\ calls' = calls
              /\ wpc'[w] = "range"
    /\ \A w \in Pool :
          (wpc[w] = "exec" /\ wpc'[w] # "exec") =>
              results' = Append(results, executeJob(wjob[w]))

\* C15: cancellation at any point of a run does not stop the pool early:
\* the workers go on as WorkersUnderCancellation says, the run does not die,
\* and the report it returns holds exactly one Result per submitted host.
C15_CancelMidRun ==
    /\ [][WorkersUnderCancellation]_vars
    /\ [](mpc # "crashed")
    /\ [](mpc = "returned" =>
            /\ Len(Report) = Len(ips)
            /\ \A h \in Hosts : IPCount(Report, h) = HostCount(h))

\* The same for the runs in which no job panics.
CancelMidRunUnlessPanic ==
    /\ [][WorkersUnderCancellation]_vars
    /\ [](~SomeJobPanics => mpc # "crashed")
    /\ [](mpc = "returned" =>
            /\ Len(Report) = Len(ips)
            /\ \A h \in Hosts : IPCount(Report, h) = HostCount(h))

\* A Result carries a payload or an error, never both; its Error is set
\* exactly when its job was fast-failed under a done context or failed in
\* executeJob, and a Result without Error carries what the call answered.
PayloadOrError(r) ==
    LET d == Dispatch(job(r.IP, r.Port, r.Command, params))
    IN  /\ ~(r.Error # NoError /\ r.Response # NoResponse)
        /\ r.Error # NoError <=>
              \/ r = cancelledResult(job(r.IP, r.Port, r.Command, params))
              \/ d.err # NoError /\ r.Error = d.err
        /\ r.Error = NoError => d.err = NoError /\ r.Response = d.response

\* C16: every Result a worker sends and every Result of every report
\* carries a payload or an error but never both; Error is non-empty exactly
\* when the job failed or was cancelled, and then Response is unset.
C16_PayloadXorError ==
    /\ \A k \in 1..Len(results) : PayloadOrError(results[k])
    /\ \A k \in 1..Len(Report) : PayloadOrError(Report[k])

C16_Witness ==
    /\ mpc = "returned"
    /\ command = "summary"
    /\ \E k \in 1..Len(Report) : Report[k].Error = ContextCancelled
    /\ \E k \in 1..Len(Report) : Report[k].Error = <<"connection refused">>
    /\ \E k \in 1..Len(Report) :
          Report[k].Error = NoError /\ Report[k].Response = <<"summary", "10.0.0.1">>

AllExited == \A w \in Pool : wpc[w] = "exited"

\* C24: the report is built by the one collector after the join barrier:
\* the result channel is closed only once all W workers have exited, no
\* Result is taken from it into the report before that, nothing is sent on
\* it once it is closed (no send ever hits the closed channel), and only the
\* collector, after the close, takes Results out of it.
C24_CollectAfterBarrier ==
    /\ [](resultsClosed => AllExited)
    /\ [](allResults # <<>> => (resultsClosed /\ AllExited))
    /\ [](mpc \in {"collect", "returned"} => (resultsClosed /\ AllExited /\ wg = 0))
    /\ [][resultsClosed =>
            (results' = results \/ (mpc = "collect" /\ allResults' = results))]_vars
    /\ [](mpc = "crashed" => ~resultsClosed)
    /\ [][Len(results') < Len(results)
            => (mpc = "collect" /\ resultsClosed /\ allResults' = results)]_vars
    /\ [][allResults' # allResults => (mpc = "collect" /\ AllExited)]_vars

C24_Witness ==
    /\ mpc = "returned"
    /\ c.workers = MaxWorkers
    /\ Len(allResults) = MaxHosts
    /\ AllExited
    /\ resultsClosed

EnqCount(h) == Cardinality({k \in 1..enq : ips[k] = h})
Queued(h) == Cardinality({k \in 1..Len(jobs) : jobs[k].ip = h})
Holders(h) == {w \in Pool : wpc[w] \in {"select", "exec"} /\ wjob[w].ip = h}

\* C25: every job is taken from the queue by exactly one worker and its
\* operation is invoked at most once on its host: per host, the jobs
\* enqueued are those still queued, those held by one worker each and those
\* answered; executeJob is entered at most once per job; each protocol call
\* of the operation is issued at most once per entered job (nothing is
\* retried after a failure); a receive hands the head of the queue to one
\* worker only.
C25_AtMostOnceExecution ==
    /\ [](\A h \in Hosts :
            /\ EnqCount(h) = Queued(h) + Cardinality(Holders(h))
                               + IPCount(results, h) + IPCount(allResults, h)
            /\ invoked[h] <= EnqCount(h)
            /\ EnqCount(h) <= HostCount(h)
            /\ invoked[h] <= Cardinality({w \in Holders(h) : wpc[w] = "exec"})
                               + IPCount(results, h) + IPCount(allResults, h))
    /\ [](\A x \in BagToSet(calls) : CopiesIn(x, calls) <= invoked[x[1]])
    /\ [][Len(jobs') < Len(jobs) =>
            /\ jobs' = Tail(jobs)
            /\ Cardinality({w \in Pool : wjob'[w] # wjob[w] \/ wpc'[w] # wpc[w]}) = 1
            /\ \E w \in Pool : wpc[w] = "range" /\ wpc'[w] = "select"
                                 /\ wjob'[w] = Head(jobs)]_vars

C25_Witness ==
    /\ mpc = "returned"
    /\ c.workers = MaxWorkers
    /\ command = "summary"
    /\ HostCount("10.0.0.2") = 2
    /\ invoked["10.0.0.2"] = 2
    /\ \E x \in BagToSet(calls) : x[1] = "10.0.0.2" /\ CopiesIn(x, calls) = 2
    /\ \E k \in 1..Len(Report) : Report[k].IP = "10.0.0.2" /\ Report[k].Error # NoError

\* C28: every Result of the report carries an elapsed duration, the Results
\* of cancelled jobs included.
C28_DurationOnEveryResult ==
    mpc = "returned" => \A k \in 1..Len(Report) : Report[k].Duration = "elapsed"

\* The same for the Results that executeJob built.
DurationOnExecutedResults ==
    mpc = "returned" =>
        \A k \in 1..Len(Report) :
            Report[k].Duration = "elapsed" <=> Report[k].Error # ContextCancelled

Taken == enq - Len(jobs)
IPsOf(rs) == [k \in 1..Len(rs) |-> rs[k].IP]

\* C30: jobs are enqueued and dequeued in ips order: the queue is always the
\* jobs of ips[Taken+1 .. enq] in that order, and a receive takes its head.
\* The report is the Results in the order the workers sent them: a send
\* appends to results, and the collector copies results as it is.  With one
\* worker the Results sent, and so the report, follow ips order.  (That with
\* two workers and two hosts a report in another order is produced is shown
\* by the witness.)
C30_FIFOAndCompletionOrder ==
    /\ [](jobs = [k \in 1..Len(jobs) |-> JobOf(Taken + k)])
    /\ [][Len(jobs') < Len(jobs) =>
            /\ jobs' = Tail(jobs)
            /\ \E w \in Pool : wjob'[w] = Head(jobs) /\ wpc[w] # wpc'[w]]_vars
    /\ [][Len(results') > Len(results) =>
            /\ Len(results') = Len(results) + 1
            /\ SubSeq(results', 1, Len(results)) = results]_vars
    /\ [][allResults' # allResults => allResults' = results]_vars
    /\ [](c.workers = 1 =>
            /\ IPsOf(results) = SubSeq(ips, 1, Len(results))
            /\ mpc = "returned" => IPsOf(Report) = ips)

C30_Witness ==
    /\ mpc = "returned"
    /\ c.workers = 2
    /\ ips = <<"10.0.0.1", "10.0.0.2">>
    /\ IPsOf(Report) = <<"10.0.0.2", "10.0.0.1">>

\* The run under fair scheduling: the producer and every worker that can
\* take a step eventually takes one, and every protocol call returns.  The
\* context's cancellation is under no obligation to happen.
Progress ==
    \/ Spawn
    \/ Enqueue
    \/ CloseJobs
    \/ WaitAndClose
    \/ Collect
    \/ \E w \in Pool : Receive(w)
    \/ \E w \in Pool : Exit(w)
    \/ \E w \in Pool : Select(w)
    \/ \E w \in Pool : Execute(w)

SpecFair == Init /\ [][Next]_vars /\ WF_vars(Progress)

\* C20: the producer never finds the job queue full, no worker ever finds
\* the result channel full, the occupancy of either never exceeds N, and
\* under fair scheduling every worker exits and ExecuteCommand returns.
C20_DeadlockFreeTermination ==
    /\ [](Len(jobs) <= Len(ips) /\ Len(results) <= Len(ips))
    /\ []((mpc = "enqueue" /\ enq < Len(ips)) => Len(jobs) < Len(ips))
    /\ [](\A w \in Pool : wpc[w] \in {"select", "exec"} =>
                               (Len(results) < Len(ips) /\ ~resultsClosed))
    /\ <>(\A w \in Pool : wpc[w] = "exited")
    /\ <>(mpc = "returned")

\* The same for the runs in which no job panics.
TerminationUnlessPanic ==
    /\ [](Len(jobs) <= Len(ips) /\ Len(results) <= Len(ips))
    /\ []((mpc = "enqueue" /\ enq < Len(ips)) => Len(jobs) < Len(ips))
    /\ [](\A w \in Pool : wpc[w] \in {"select", "exec"} =>
                               (Len(results) < Len(ips) /\ ~resultsClosed))
    /\ <>(SomeJobPanics \/ \A w \in Pool : wpc[w] = "exited")
    /\ <>(SomeJobPanics \/ mpc = "returned")

Recognized == { GetAvailableCommands[k] : k \in 1..Len(GetAvailableCommands) }

unknownResult(j) ==
    Result(j.ip, j.port, j.command, NoResponse, <<"unknown command:", j.command>>,
           "elapsed")

----------------------------------------------------------------------------
(* NewClient as a function of its arguments (specification SpecNewClient)  *)

DispatcherIdle ==
    /\ c = NoClient /\ ips = <<>> /\ command = "" /\ params = NoParams
    /\ ctxDone = FALSE /\ preCancelled = FALSE /\ mpc = "idle" /\ spawned = 0
    /\ enq = 0 /\ jobs = <<>> /\ jobsClosed = FALSE /\ results = <<>>
    /\ resultsClosed = FALSE /\ wg = 0 /\ wpc = <<>> /\ wjob = <<>>
    /\ invoked = [h \in Hosts |-> 0] /\ calls = EmptyBag /\ allResults = <<>>

InitNewClient ==
    /\ ncIn \in [timeout : Timeouts, workers : (-WorkerSpan)..WorkerSpan]
    /\ ncOut = NoClient
    /\ DispatcherIdle
    /\ JobIdle
    /\ CLIIdle
    /\ ParserIdle

CallNewClient ==
    /\ ncOut = NoClient
    /\ ncOut' = NewClient(ncIn.timeout, ncIn.workers)
    /\ UNCHANGED <<ncIn, dispVars, jobVars, cliVars, parseVars>>

NextNewClient == CallNewClient

SpecNewClient == InitNewClient /\ [][NextNewClient]_vars

\* C4: NewClient gives a pool of 10 when workers <= 0 and of exactly
\* `workers` when workers > 0, and stores the timeout unchanged either way.
C4_WorkerCoercion ==
    ncOut # NoClient =>
        /\ ncIn.workers <= 0 => ncOut.workers = 10
        /\ ncIn.workers > 0 => ncOut.workers = ncIn.workers
        /\ ncOut.timeout = ncIn.timeout

C4_Witness ==
    /\ ncOut # NoClient
    /\ ncIn.workers = 0
    /\ ncOut.workers = 10
    /\ ncIn.timeout = 5

----------------------------------------------------------------------------
(* Client.executeJob as a function of its job (specification SpecJob)      *)

Ports == {DefaultPort, 4029}

\* The names a job may carry: the recognized ones and two others.
CommandNames == Recognized \cup {"reboot", "unknown"}

Bag1(k, v) == [x \in {k} |-> v]
AddPoolParams(url, user, pass) ==
    [x \in {"url", "user", "pass"} |->
        CASE x = "url" -> url [] x = "user" -> user [] OTHER -> pass]

\* The parameter bags a job may carry: none, 'pool' as an int in and out of
\* the pool list or as a string, addpool's three keys in part, in full and
\* with one of the wrong type, 'cmd' as a string or as an int.
ParamBags ==
    { NoParams,
      PoolParam(-1), PoolParam(0), PoolParam(1), PoolParam(2),
      Bag1("pool", StrParam("1")),
      Bag1("url", StrParam("stratum://pool.com")),
      [x \in {"url", "user"} |-> StrParam(IF x = "url" THEN "stratum://pool.com" ELSE "worker")],
      AddPoolParams(StrParam("stratum://pool.com"), StrParam("worker"), StrParam("x")),
      AddPoolParams(StrParam("stratum://pool.com"), StrParam("worker"), IntParam(7)),
      Bag1("cmd", StrParam("coin")),
      Bag1("cmd", IntParam(3)) }

InitJob ==
    /\ ejJob \in { job(ip, port, cmd, p) :
                      ip \in Hosts, port \in Ports, cmd \in CommandNames, p \in ParamBags }
    /\ ejOut = NoOutcome
    /\ DispatcherIdle
    /\ NewClientIdle
    /\ CLIIdle
    /\ ParserIdle

\* result := c.executeJob(j)
CallExecuteJob ==
    /\ ejOut.state = "none"
    /\ LET d == Dispatch(ejJob)
       IN  ejOut' = IF d.panic
                    THEN [state |-> "panicked", result |-> NoOutcome.result, wire |-> d.wire]
                    ELSE [state |-> "returned", result |-> executeJob(ejJob),
                          wire |-> d.wire]
    /\ UNCHANGED <<ejJob, dispVars, ncVars, cliVars, parseVars>>

NextJob == CallExecuteJob

SpecJob == InitJob /\ [][NextJob]_vars

\* The message executeJob gives a job whose parameters its command cannot
\* use, <<>> for a job whose parameters are in order.
ParameterMessage(j) ==
    CASE j.command \in {"switchpool", "enablepool", "disablepool", "removepool"}
            /\ ~HasInt(j.params, "pool") ->
            <<j.command, "command requires 'pool' parameter">>
      [] j.command = "addpool"
            /\ ~(HasStr(j.params, "url") /\ HasStr(j.params, "user")
                    /\ HasStr(j.params, "pass")) ->
            <<"addpool requires 'url', 'user', and 'pass' parameters">>
      [] j.command = "custom" /\ ~HasStr(j.params, "cmd") ->
            <<"custom command requires 'cmd' parameter">>
      [] OTHER -> <<>>

\* C12: a job whose command lacks its parameters (an integer 'pool' for
\* switchpool, enablepool, disablepool, removepool; strings 'url', 'user' and
\* 'pass' for addpool; a string 'cmd' for custom) returns a Result whose
\* Error is the command's parameter message, with the job's IP, port and
\* command and no response, and no protocol call was made for it.
C12_ParamValidationBeforeCall ==
    (ejOut.state # "none" /\ ParameterMessage(ejJob) # <<>>) =>
        /\ ejOut.state = "returned"
        /\ ejOut.wire = <<>>
        /\ ejOut.result.Error = ParameterMessage(ejJob)
        /\ ejOut.result.IP = ejJob.ip
        /\ ejOut.result.Port = ejJob.port
        /\ ejOut.result.Command = ejJob.command
        /\ ejOut.result.Response = NoResponse

PoolCommands == {"switchpool", "enablepool", "disablepool", "removepool"}

\* The job is a pool command with an integer pool, its host answered the
\* pools call, and executeJob has run.
PoolJobDone ==
    /\ ejOut.state # "none"
    /\ ejJob.command \in PoolCommands
    /\ HasInt(ejJob.params, "pool")
    /\ HostAnswer(ejJob.ip).up

PoolNotFound ==
    /\ ejOut.state = "returned"
    /\ ejOut.result.Error = <<"pool ID", ToString(ejJob.params["pool"].v), "not found">>
    /\ ejOut.result.Response = NoResponse
    /\ ejOut.wire = <<"pools">>

\* C26: for switchpool, enablepool, disablepool and removepool with an integer
\* pool p on a host whose pools list has length L, p < 0 or p >= L gives a
\* Result with "pool ID p not found", only the pools query was issued (no
\* mutating call), and executeJob returns (the worker does not crash).
C26_PoolIndexOutOfRange ==
    (PoolJobDone /\ (ejJob.params["pool"].v < 0
                      \/ ejJob.params["pool"].v >= HostAnswer(ejJob.ip).pools))
        => PoolNotFound

\* The same for p >= L only.
PoolIndexAboveRange ==
    (PoolJobDone /\ ejJob.params["pool"].v >= HostAnswer(ejJob.ip).pools)
        => PoolNotFound

C12_Witness ==
    /\ ejOut.state = "returned"
    /\ ejJob.command = "addpool"
    /\ ejJob.ip = "10.0.0.1"
    /\ ejJob.port = 4029
    /\ DOMAIN ejJob.params = {"url", "user", "pass"}
    /\ ejOut.result.Error = <<"addpool requires 'url', 'user', and 'pass' parameters">>
    /\ ejOut.wire = <<>>

----------------------------------------------------------------------------
(* internal/iprange/parser.go: strings, net.IP and uint32                  *)

\* A string is the sequence of its lexemes: an address literal (b its bytes:
\* 4 for dotted-quad text, 16 for IPv6 text), "/", "-", a decimal number,
\* a blank, or any other word.
Lex(k, b, n, w) == [k |-> k, b |-> b, n |-> n, w |-> w]
Addr(b) == Lex("addr", b, 0, "")
Slash == Lex("/", <<>>, 0, "")
Dash == Lex("-", <<>>, 0, "")
Num(n) == Lex("num", <<>>, n, "")
Blank == Lex(" ", <<>>, 0, "")
Word(w) == Lex("word", <<>>, 0, w)

\* strings.Contains(s, sep) for a one-character sep
StrContains(s, sep) == \E i \in 1..Len(s) : s[i] = sep

RECURSIVE TrimLeft(_)
TrimLeft(s) == IF s # <<>> /\ Head(s) = Blank THEN TrimLeft(Tail(s)) ELSE s

RECURSIVE TrimRight(_)
TrimRight(s) ==
    IF s # <<>> /\ s[Len(s)] = Blank THEN TrimRight(SubSeq(s, 1, Len(s) - 1)) ELSE s

\* strings.TrimSpace
TrimSpace(s) == TrimRight(TrimLeft(s))

\* strings.Split(s, sep) for a one-character sep
RECURSIVE StrSplit(_, _)
StrSplit(s, sep) ==
    IF ~StrContains(s, sep) THEN <<s>>
    ELSE LET i == CHOOSE k \in 1..Len(s) :
                      s[k] = sep /\ \A m \in 1..(k - 1) : s[m] # sep
         IN  <<SubSeq(s, 1, i - 1)>> \o StrSplit(SubSeq(s, i + 1, Len(s)), sep)

\* Bytes and their bitwise operations.
Bit(b, k) == (b \div (2 ^ k)) % 2
ByteAnd(a, b) ==
    LET f[k \in 0..8] == IF k = 8 THEN 0 ELSE (2 ^ k) * Bit(a, k) * Bit(b, k) + f[k + 1]
    IN  f[0]
ByteNot(a) == 255 - a
ByteOr(a, b) == ByteNot(ByteAnd(ByteNot(a), ByteNot(b)))

\* net.IP: a sequence of 4 or 16 bytes, <<>> for nil.
NilIP == <<>>
v4InV6Prefix == <<0, 0, 0, 0, 0, 0, 0, 0, 0, 0, 255, 255>>

\* net.IPv4(a, b, c, d): the 16-byte form
IPv4(b1, b2, b3, b4) == v4InV6Prefix \o <<b1, b2, b3, b4>>

\* net.ParseIP
ParseIP(s) ==
    IF Len(s) = 1 /\ s[1].k = "addr"
    THEN IF Len(s[1].b) = 4
         THEN IPv4(s[1].b[1], s[1].b[2], s[1].b[3], s[1].b[4])
         ELSE s[1].b
    ELSE NilIP

\* IP.To4
To4(ip) ==
    IF Len(ip) = 4 THEN ip
    ELSE IF Len(ip) = 16 /\ SubSeq(ip, 1, 12) = v4InV6Prefix THEN SubSeq(ip, 13, 16)
    ELSE NilIP

\* IP.String: the text of the address, dotted-quad whenever To4 succeeds
String(ip) == IF To4(ip) # NilIP THEN Addr(To4(ip)) ELSE Addr(ip)

\* IP.Equal
IPEqual(a, b) ==
    IF Len(a) = Len(b) THEN a = b
    ELSE IF Len(a) = 4 /\ Len(b) = 16 THEN To4(b) = a
    ELSE IF Len(a) = 16 /\ Len(b) = 4 THEN To4(a) = b
    ELSE FALSE

Zeros(n) == [i \in 1..n |-> 0]

\* IP.IsUnspecified
IsUnspecified(ip) == IPEqual(ip, Zeros(4)) \/ IPEqual(ip, Zeros(16))

\* net.CIDRMask(ones, bits)
CIDRMask(ones, bits) ==
    [i \in 1..(bits \div 8) |->
        IF ones >= 8 * i THEN 255
        ELSE IF ones <= 8 * (i - 1) THEN 0
        ELSE 256 - 2 ^ (8 * i - ones)]

\* IPMask.Size: the number of leading ones
MaskOnes(mask) ==
    LET f[i \in 0..Len(mask)] ==
            IF i = 0 THEN 0
            ELSE f[i - 1] + Cardinality({k \in 0..7 : Bit(mask[i], k) = 1})
    IN  f[Len(mask)]

\* IP.Mask
MaskIP(ip, mask) ==
    LET x == IF Len(mask) = 4 /\ Len(ip) = 16 /\ SubSeq(ip, 1, 12) = v4InV6Prefix
             THEN SubSeq(ip, 13, 16) ELSE ip
    IN  IF Len(x) # Len(mask) THEN NilIP
        ELSE [i \in 1..Len(x) |-> ByteAnd(x[i], mask[i])]

\* IPNet.Contains
Contains(ipNet, ip) ==
    LET x == IF To4(ip) # NilIP THEN To4(ip) ELSE ip
    IN  /\ Len(x) = Len(ipNet.IP)
        /\ \A i \in 1..Len(x) :
              ByteAnd(ipNet.IP[i], ipNet.Mask[i]) = ByteAnd(x[i], ipNet.Mask[i])

\* net.ParseCIDR: the IPNet, or NoNet on an error
ParseCIDR(s) ==
    IF /\ Len(s) = 3 /\ s[1].k = "addr" /\ s[2] = Slash /\ s[3].k = "num"
       /\ s[3].n <= 8 * Len(s[1].b)
    THEN LET m == CIDRMask(s[3].n, 8 * Len(s[1].b))
         IN  [IP |-> MaskIP(s[1].b, m), Mask |-> m]
    ELSE NoNet

\* inc: add one to the last byte, carrying leftwards, wrapping to all zeros
inc(ip) ==
    LET carry[j \in 1..(Len(ip) + 1)] ==
            IF j = Len(ip) + 1 THEN TRUE ELSE carry[j + 1] /\ ip[j] = 255
    IN  [j \in 1..Len(ip) |-> IF carry[j + 1] THEN (ip[j] + 1) % 256 ELSE ip[j]]

\* duplicateIP: a fresh copy, so that inc's update in place of the loop
\* variable leaves the appended address alone; a value here
duplicateIP(ip) == [j \in 1..Len(ip) |-> ip[j]]

isBroadcast(ip, ipNet) ==
    IF Len(ip) # 4 THEN FALSE
    ELSE IF MaskOnes(ipNet.Mask) = 8 * Len(ipNet.Mask) THEN FALSE
    ELSE IPEqual(ip, [i \in 1..Len(ipNet.IP) |->
                          ByteOr(ipNet.IP[i], ByteNot(ipNet.Mask[i]))])

\* uint32: the pair of its 16-bit halves <<high, low>>.
ipToUint32(ip) == <<ip[1] * 256 + ip[2], ip[3] * 256 + ip[4]>>

uint32ToIP(n) == IPv4(n[1] \div 256, n[1] % 256, n[2] \div 256, n[2] % 256)

\* a > b compared as int32: the sign bit is the top bit of the high half
U32GreaterSigned(a, b) ==
    LET sa == IF a[1] >= 32768 THEN a[1] - 65536 ELSE a[1]
        sb == IF b[1] >= 32768 THEN b[1] - 65536 ELSE b[1]
    IN  sa > sb \/ (sa = sb /\ a[2] > b[2])

\* a > b on uint32
U32Greater(a, b) == a[1] > b[1] \/ (a[1] = b[1] /\ a[2] > b[2])

\* i++ on uint32: it wraps from 2^32 - 1 to 0
U32Inc(a) ==
    IF a[2] < 65535 THEN <<a[1], a[2] + 1>>
    ELSE <<(a[1] + 1) % 65536, 0>>

\* An error: the parts of its message, outermost first, each with the text
\* it quotes; <<>> is nil.
Err(msg, arg) == <<[msg |-> msg, arg |-> arg]>>

Returned(err, list) ==
    [state |-> IF err = NoError THEN "ok" ELSE "err", err |-> err, IPs |-> list]

\* ParseIPRange, parseCIDR and parseRange up to their loops: the error or
\* the single address returned at once, or the loop to run.
Classify(raw) ==
    LET input == TrimSpace(raw)
        none == [kind |-> "", err |-> NoError, ip |-> NilIP, net |-> NoNet,
                 start |-> <<>>, end |-> <<>>]
    IN  IF StrContains(input, Slash)
        THEN LET ipNet == ParseCIDR(input)
             IN  IF ipNet = NoNet
                 THEN [none EXCEPT !.kind = "err",
                            !.err = Err("invalid CIDR notation:", <<>>)
                                    \o Err("invalid CIDR address:", input)]
                 ELSE [none EXCEPT !.kind = "cidr", !.net = ipNet]
        ELSE IF StrContains(input, Dash)
        THEN LET parts == StrSplit(input, Dash)
             IN  IF Len(parts) # 2
                 THEN [none EXCEPT !.kind = "err",
                            !.err = Err("invalid range format, expected start-end:", input)]
                 ELSE LET startIP == ParseIP(TrimSpace(parts[1]))
                          endIP == ParseIP(TrimSpace(parts[2]))
                      IN  IF startIP = NilIP \/ endIP = NilIP
                          THEN [none EXCEPT !.kind = "err",
                                     !.err = Err("invalid IP addresses in range:", input)]
                          ELSE IF To4(startIP) = NilIP \/ To4(endIP) = NilIP
                          THEN [none EXCEPT !.kind = "err",
                                     !.err = Err("only IPv4 ranges are supported", <<>>)]
                          ELSE IF U32Greater(ipToUint32(To4(startIP)), ipToUint32(To4(endIP)))
                          THEN [none EXCEPT !.kind = "err",
                                     !.err = Err("start IP must be less than or equal to end IP", <<>>)]
                          ELSE [none EXCEPT !.kind = "range",
                                     !.start = ipToUint32(To4(startIP)),
                                     !.end = ipToUint32(To4(endIP))]
        ELSE LET ip == ParseIP(input)
             IN  IF ip = NilIP
                 THEN [none EXCEPT !.kind = "err",
                            !.err = Err("invalid IP address:", input)]
                 ELSE [none EXCEPT !.kind = "single", !.ip = ip]

----------------------------------------------------------------------------
(* ParseIPRange and ParseMultipleRanges, their loops step by step          *)

\* The memory of the process, counted in addresses: a loop that asks for
\* more dies of it.  It is larger than every expansion that ends.
RangeCap == 2 ^ (MaxHostBits + 1)
MemoryCap == IF top = "ParseMultipleRanges" THEN MultiCap ELSE RangeCap

Input == inputs[idx]

\* ParseIPRange up to the loops of parseCIDR and parseRange
Enter ==
    /\ ppc = "loop"
    /\ idx <= Len(inputs)
    /\ LET k == Classify(Input)
       IN  /\ net' = k.net
           /\ lim' = k.end
           /\ cur' = CASE k.kind = "cidr" -> MaskIP(k.net.IP, k.net.Mask)
                       [] k.kind = "range" -> k.start
                       [] OTHER -> <<>>
           /\ acc' = <<>>
           /\ ppc' = CASE k.kind = "cidr" -> "cidrLoop"
                       [] k.kind = "range" -> "rangeLoop"
                       [] OTHER -> "ret"
           /\ ret' = CASE k.kind = "err" -> Returned(k.err, <<>>)
                       [] k.kind = "single" -> Returned(NoError, <<k.ip>>)
                       [] OTHER -> NoReturn
           /\ parsed' = IF k.kind = "single" THEN Append(parsed, <<k.ip>>) ELSE parsed
    /\ UNCHANGED <<top, inputs, idx, allIPs, seenIPs, out, dispVars, ncVars, jobVars,
                   cliVars>>

\* for ip := ...; ipNet.Contains(ip); inc(ip) { ips = append(ips, duplicateIP(ip)) }
CIDRStep ==
    /\ ppc = "cidrLoop"
    /\ Contains(net, cur)
    /\ IF Len(acc) >= MemoryCap
       THEN ppc' = "oom" /\ UNCHANGED <<acc, cur>>
       ELSE /\ acc' = Append(acc, duplicateIP(cur))
            /\ cur' = inc(cur)
            /\ UNCHANGED ppc
    /\ UNCHANGED <<top, inputs, idx, net, lim, ret, parsed, allIPs, seenIPs, out,
                   dispVars, ncVars, jobVars,
                   cliVars>>

\* The two trims of parseCIDR on the list the loop built.
TrimFirstAlways(list) == IF Len(list) > 0 THEN Tail(list) ELSE list

TrimFirst(list) ==
    IF Len(list) > 0 /\ IsUnspecified(list[1]) THEN Tail(list) ELSE list

TrimLast(list, ipNet) ==
    IF Len(list) > 0 /\ isBroadcast(list[Len(list)], ipNet)
    THEN SubSeq(list, 1, Len(list) - 1)
    ELSE list

\* the loop's exit, the two trims and the return of parseCIDR
CIDRFinish ==
    /\ ppc = "cidrLoop"
    /\ ~Contains(net, cur)
    /\ ret' = Returned(NoError, TrimLast(TrimFirst(acc), net))
    /\ parsed' = Append(parsed, ret'.IPs)
    /\ ppc' = "ret"
    /\ UNCHANGED <<top, inputs, idx, net, lim, cur, acc, allIPs, seenIPs, out,
                   dispVars, ncVars, jobVars,
                   cliVars>>

\* for i := startInt; i <= endInt; i++ { ips = append(ips, uint32ToIP(i)) }
RangeStep ==
    /\ ppc = "rangeLoop"
    /\ ~U32Greater(cur, lim)
    /\ IF Len(acc) >= MemoryCap
       THEN ppc' = "oom" /\ UNCHANGED <<acc, cur>>
       ELSE /\ acc' = Append(acc, uint32ToIP(cur))
            /\ cur' = U32Inc(cur)
            /\ UNCHANGED ppc
    /\ UNCHANGED <<top, inputs, idx, net, lim, ret, parsed, allIPs, seenIPs, out,
                   dispVars, ncVars, jobVars,
                   cliVars>>

\* the loop's exit and the return of parseRange
RangeFinish ==
    /\ ppc = "rangeLoop"
    /\ U32Greater(cur, lim)
    /\ ret' = Returned(NoError, acc)
    /\ parsed' = Append(parsed, acc)
    /\ ppc' = "ret"
    /\ UNCHANGED <<top, inputs, idx, net, lim, cur, acc, allIPs, seenIPs, out,
                   dispVars, ncVars, jobVars,
                   cliVars>>

\* the key of seenIPs
SeenKeyRaw(ip) == Addr(ip)

SeenKey(ip) == String(ip)

\* for _, ip := range r.IPs { if !seenIPs[ipStr] { ...append... } }
RECURSIVE MergeInto(_, _, _)
MergeInto(list, all, seen) ==
    IF list = <<>> THEN [all |-> all, seen |-> seen]
    ELSE IF SeenKey(Head(list)) \in seen
    THEN MergeInto(Tail(list), all, seen)
    ELSE MergeInto(Tail(list), Append(all, Head(list)), seen \cup {SeenKey(Head(list))})

\* ParseMultipleRanges after r, err := ParseIPRange(input): the error return,
\* or the merge of r.IPs and the next round of the loop
Merge ==
    /\ top = "ParseMultipleRanges"
    /\ ppc = "ret"
    /\ IF ret.err # NoError
       THEN /\ out' = Returned(Err("error parsing", Input) \o ret.err, <<>>)
            /\ ppc' = "done"
            /\ UNCHANGED <<idx, allIPs, seenIPs>>
       ELSE /\ LET m == MergeInto(ret.IPs, allIPs, seenIPs)
               IN  allIPs' = m.all /\ seenIPs' = m.seen
            /\ idx' = idx + 1
            /\ ppc' = "loop"
            /\ UNCHANGED out
    /\ UNCHANGED <<top, inputs, net, lim, cur, acc, ret, parsed, dispVars, ncVars, jobVars,
                   cliVars>>

\* return &IPRange{IPs: allIPs}, nil
MultiReturn ==
    /\ top = "ParseMultipleRanges"
    /\ ppc = "loop"
    /\ idx > Len(inputs)
    /\ out' = Returned(NoError, allIPs)
    /\ ppc' = "done"
    /\ UNCHANGED <<top, inputs, idx, net, lim, cur, acc, ret, parsed, allIPs, seenIPs,
                   dispVars, ncVars, jobVars,
                   cliVars>>

\* IPRange.GetIPs
GetIPs(list) == [i \in 1..Len(list) |-> String(list[i])]

\* IPRange.Count
Count(list) == Len(list)

----------------------------------------------------------------------------
(* The specs the parser is tried on.                                       *)

Addrs4 ==
    { <<0, 0, 0, 0>>, <<0, 0, 0, 1>>, <<10, 0, 0, 0>>, <<10, 0, 0, 1>>,
      <<10, 0, 0, 5>>, <<10, 0, 255, 254>>, <<10, 1, 0, 1>>, <<172, 16, 0, 1>>,
      <<192, 168, 1, 0>>, <<192, 168, 1, 1>>, <<192, 168, 1, 5>>,
      <<192, 168, 1, 10>>, <<255, 255, 255, 252>>, <<255, 255, 255, 254>>,
      <<255, 255, 255, 255>> }

Loopback6 == <<0, 0, 0, 0, 0, 0, 0, 0, 0, 0, 0, 0, 0, 0, 0, 1>>

\* b - a for two uint32 whose high halves differ by at most one
U32Diff(a, b) == (b[1] - a[1]) * 65536 + (b[2] - a[2])

Near(a, b) ==
    /\ b[1] - a[1] \in {0, 1}
    /\ U32Diff(a, b) >= 0
    /\ U32Diff(a, b) < MaxSpan

CIDRSpecs ==
    { <<Addr(a), Slash, Num(n)>> : a \in Addrs4, n \in (32 - MaxHostBits)..33 }
    \cup { <<Addr(<<0, 0, 0, 0>>), Slash, Num(0)>>,
           <<Addr(Zeros(16)), Slash, Num(126)>>,
           <<Addr(Loopback6), Slash, Num(128)>>,
           <<Word("999.999.999.999"), Slash, Num(24)>> }

\* a > b as numbers, byte by byte from the left
BytesGreater(a, b) ==
    \E i \in 1..4 : a[i] > b[i] /\ \A j \in 1..(i - 1) : a[j] = b[j]

RangeSpecs ==
    { <<Addr(p[1]), Dash, Addr(p[2])>> : p \in
        { q \in Addrs4 \X Addrs4 :
            \/ BytesGreater(q[1], q[2])
            \/ Near(ipToUint32(q[1]), ipToUint32(q[2])) } }
    \cup { <<Word("invalid"), Dash, Word("ip")>>,
           <<Addr(<<10, 0, 0, 1>>), Dash, Word("999.999.999.999")>>,
           <<Addr(<<10, 0, 0, 1>>), Dash, Addr(<<10, 0, 0, 2>>), Dash, Addr(<<10, 0, 0, 3>>)>>,
           <<Addr(Loopback6), Dash, Addr(Loopback6)>>,
           <<Addr(Loopback6), Dash, Addr(inc(Loopback6))>>,
           <<Addr(<<10, 0, 0, 1>>), Dash, Addr(Loopback6)>>,
           <<Addr(IPv4(10, 0, 0, 1)), Dash, Addr(<<10, 0, 0, 5>>)>>,
           <<Addr(<<10, 0, 0, 1>>), Blank, Dash, Blank, Addr(<<10, 0, 0, 5>>)>> }

SingleSpecs ==
    { <<Addr(a)>> : a \in Addrs4 }
    \cup { <<Addr(Loopback6)>>, <<Addr(IPv4(192, 168, 1, 1))>>, <<Word("invalid")>>,
           <<Blank, Addr(<<192, 168, 1, 1>>), Blank>>, <<>> }

InitParser(fn, specs) ==
    /\ top = fn
    /\ inputs = specs
    /\ idx = 1
    /\ ppc = "loop"
    /\ net = NoNet
    /\ lim = <<>>
    /\ cur = <<>>
    /\ acc = <<>>
    /\ ret = NoReturn
    /\ parsed = <<>>
    /\ allIPs = <<>>
    /\ seenIPs = {}
    /\ out = NoReturn
    /\ DispatcherIdle
    /\ NewClientIdle
    /\ JobIdle
    /\ CLIIdle

InitRange ==
    \E s \in CIDRSpecs \cup RangeSpecs \cup SingleSpecs : InitParser("ParseIPRange", <<s>>)

NextRange ==
    \/ Enter
    \/ CIDRStep
    \/ CIDRFinish
    \/ RangeStep
    \/ RangeFinish

SpecRange == InitRange /\ [][NextRange]_vars

----------------------------------------------------------------------------
(* Claims on ParseIPRange (specification SpecRange)                        *)

NoRepeat(s) == \A i, k \in 1..Len(s) : s[i] = s[k] => i = k

\* The input is the text "a/n" for an IPv4 address a.
IsCIDR4(s) ==
    /\ Len(s) = 3 /\ s[1].k = "addr" /\ Len(s[1].b) = 4 /\ s[2] = Slash
    /\ s[3].k = "num" /\ s[3].n <= 32

\* An address literal of the IPv6 family that is no IPv4 address in disguise.
IsV6(x) == x.k = "addr" /\ Len(x.b) = 16 /\ To4(x.b) = NilIP

\* C13: a single address of either family yields that one address; a range
\* "a-b" and a block "a/n" with an address that is not IPv4 each return an
\* error and no addresses.
C13_FamilySupport ==
    LET s == TrimSpace(inputs[1])
    IN  ppc = "ret" =>
              /\ (Len(s) = 1 /\ s[1].k = "addr") =>
                    /\ ret.state = "ok"
                    /\ GetIPs(ret.IPs) = <<Addr(IF IsV6(s[1]) THEN s[1].b ELSE To4(s[1].b))>>
              /\ (Len(s) = 3 /\ s[1].k = "addr" /\ s[2] = Dash /\ s[3].k = "addr"
                     /\ (IsV6(s[1]) \/ IsV6(s[3]))) =>
                    /\ ret.state = "err"
                    /\ ret.IPs = <<>>
              /\ (Len(s) = 3 /\ IsV6(s[1]) /\ s[2] = Slash /\ s[3].k = "num"
                     /\ s[3].n <= 128) =>
                    /\ ret.state = "err"
                    /\ ret.IPs = <<>>

\* C13 without its sentence on the CIDR path: the single-address path and the
\* range path.
FamilySupportOffCIDR ==
    LET s == TrimSpace(inputs[1])
    IN  (ppc = "ret" /\ ~StrContains(s, Slash)) => C13_FamilySupport

\* The input is the text "a-b" for two IPv4 addresses.
IsRange4(s) ==
    /\ Len(s) = 3 /\ s[1].k = "addr" /\ Len(s[1].b) = 4 /\ s[2] = Dash
    /\ s[3].k = "addr" /\ Len(s[3].b) = 4

\* a + k for a uint32 a and a small k, without wrapping
U32Plus(a, k) == <<a[1] + ((a[2] + k) \div 65536), (a[2] + k) % 65536>>

DottedQuad(n) == Addr(<<n[1] \div 256, n[1] % 256, n[2] \div 256, n[2] % 256>>)

\* The texts of the addresses from + 1, ..., from + count, in that order.
Ascending(from, count) == [k \in 1..count |-> DottedQuad(U32Plus(from, k))]

\* The first address of the block of a/n, for a block of at most 2^16.
BlockBase(a, n) ==
    LET v == ipToUint32(a)
    IN  <<v[1], v[2] - (v[2] % (2 ^ (32 - n)))>>

\* C5: for an IPv4 CIDR block with prefix length below 31, ParseIPRange
\* returns all addresses of the masked network in ascending order without
\* the first (network) and the last (broadcast) address: 254 addresses for
\* a /24, 2 for a /30.
C5_CIDRBoundaryExclusion ==
    (top = "ParseIPRange" /\ IsCIDR4(Input) /\ Input[3].n < 31) =>
        /\ ppc # "oom"
        /\ (ppc = "ret" /\ Input[3].n >= 32 - MaxHostBits) =>
              /\ ret.state = "ok"
              /\ GetIPs(ret.IPs) =
                    Ascending(BlockBase(Input[1].b, Input[3].n),
                              2 ^ (32 - Input[3].n) - 2)

\* C6: for every IPv4 address A, 0.0.0.0 and 255.255.255.255 included,
\* ParseIPRange("A/32") succeeds and returns exactly the list [A].
C6_CIDR32Singleton ==
    (top = "ParseIPRange" /\ IsCIDR4(Input) /\ Input[3].n = 32) =>
        /\ ppc # "oom"
        /\ ppc = "ret" => (ret.state = "ok" /\ GetIPs(ret.IPs) = <<Input[1]>>)

\* The addresses of A-B the loop has to produce, for B - A < MaxSpan.
RangeWanted(s) ==
    LET a == ipToUint32(s[1].b)
        b == ipToUint32(s[3].b)
    IN  [k \in 1..(U32Diff(a, b) + 1) |-> DottedQuad(U32Plus(a, k - 1))]

IsPrefix(p, s) == Len(p) <= Len(s) /\ \A k \in 1..Len(p) : p[k] = s[k]

\* C7: for IPv4 addresses A <= B, ParseIPRange("A-B") returns exactly the
\* B - A + 1 addresses A, A + 1, ..., B in ascending order: the loop appends
\* nothing else and ends, and the list returned is that one.
C7_RangeInclusive ==
    (top = "ParseIPRange" /\ IsRange4(Input) /\ ~BytesGreater(Input[1].b, Input[3].b)) =>
        /\ ppc # "oom"
        /\ ppc = "rangeLoop" => IsPrefix(GetIPs(acc), RangeWanted(Input))
        /\ ppc = "ret" => (ret.state = "ok" /\ GetIPs(ret.IPs) = RangeWanted(Input))

\* C8: for IPv4 addresses A > B, ParseIPRange("A-B") returns an error and
\* no list: the range loop is never entered and nothing is enumerated.
C8_RangeOrderError ==
    (top = "ParseIPRange" /\ IsRange4(Input) /\ BytesGreater(Input[1].b, Input[3].b)) =>
        /\ ppc \in {"loop", "ret"}
        /\ acc = <<>>
        /\ ppc = "ret" =>
              /\ ret.state = "err"
              /\ ret.IPs = <<>>
              /\ ret.err = Err("start IP must be less than or equal to end IP", <<>>)

C8_Witness ==
    /\ top = "ParseIPRange"
    /\ Input = <<Addr(<<192, 168, 1, 10>>), Dash, Addr(<<192, 168, 1, 5>>)>>
    /\ ppc = "ret"
    /\ ret.state = "err"

MaxAddr == <<255, 255, 255, 255>>

\* C21: for every IPv4 address A, ParseIPRange("A-255.255.255.255") ends and
\* returns exactly A, ..., 255.255.255.255: the loop counter never wraps
\* past the end, so the loop appends no address beyond 255.255.255.255 and
\* does not run on until memory is gone.
C21_RangeToMaxAddress ==
    (top = "ParseIPRange" /\ IsRange4(Input) /\ Input[3].b = MaxAddr) =>
        /\ ppc # "oom"
        /\ Len(acc) <= U32Diff(ipToUint32(Input[1].b), ipToUint32(MaxAddr)) + 1
        /\ \A k \in 1..Len(acc) : To4(acc[k]) # Zeros(4)
        /\ ppc = "ret" => (ret.state = "ok" /\ GetIPs(ret.IPs) = RangeWanted(Input))

\* C22: for every valid IPv4 CIDR, /0 and the blocks that end at
\* 255.255.255.255 included, the loop of parseCIDR ends and enumerates each
\* address of the block at most once.
C22_CIDRExpansionTotal ==
    (top = "ParseIPRange" /\ IsCIDR4(Input)) =>
        /\ ppc # "oom"
        /\ NoRepeat(GetIPs(acc))

\* The same for every prefix length but 0.
CIDRExpansionTotalBelowSlashZero ==
    (top = "ParseIPRange" /\ IsCIDR4(Input) /\ Input[3].n > 0) =>
        /\ ppc # "oom"
        /\ NoRepeat(GetIPs(acc))

\* C23: for every IPv4 /31 block ParseIPRange returns both addresses of the
\* block, in ascending order.
C23_Slash31BothAddresses ==
    (top = "ParseIPRange" /\ IsCIDR4(Input) /\ Input[3].n = 31 /\ ppc = "ret") =>
        /\ ret.state = "ok"
        /\ GetIPs(ret.IPs) =
              <<DottedQuad(BlockBase(Input[1].b, 31)),
                DottedQuad(U32Plus(BlockBase(Input[1].b, 31), 1))>>

----------------------------------------------------------------------------
(* ParseMultipleRanges (specification SpecMulti)                           *)

MultiSpecs ==
    { <<Addr(<<192, 168, 1, 1>>)>>,
      <<Addr(<<192, 168, 1, 2>>)>>,
      <<Addr(<<10, 0, 0, 0>>), Slash, Num(30)>>,
      <<Addr(<<10, 0, 0, 1>>), Dash, Addr(<<10, 0, 0, 3>>)>>,
      <<Addr(<<172, 16, 0, 1>>), Dash, Addr(<<172, 16, 0, 3>>)>>,
      <<Addr(<<0, 0, 0, 0>>), Slash, Num(32)>>,
      <<Addr(<<255, 255, 255, 255>>), Dash, Addr(<<255, 255, 255, 255>>)>>,
      <<Word("invalid"), Dash, Word("ip")>>,
      <<Addr(<<192, 168, 1, 0>>), Slash, Num(99)>> }

InitMulti ==
    \E specs \in SeqsUpTo(MultiSpecs, MaxSpecs) :
        InitParser("ParseMultipleRanges", specs)

NextMulti ==
    \/ Enter
    \/ CIDRStep
    \/ CIDRFinish
    \/ RangeStep
    \/ RangeFinish
    \/ Merge
    \/ MultiReturn

SpecMulti == InitMulti /\ [][NextMulti]_vars

RECURSIVE Flatten(_)
Flatten(ss) == IF ss = <<>> THEN <<>> ELSE Head(ss) \o Flatten(Tail(ss))

\* s without the entries that occurred earlier in it.
FirstOccurrences(s) ==
    LET keep(i) == \A j \in 1..(i - 1) : s[j] # s[i]
        f[i \in 0..Len(s)] ==
            IF i = 0 THEN <<>>
            ELSE IF keep(i) THEN Append(f[i - 1], s[i]) ELSE f[i - 1]
    IN  f[Len(s)]

NoDuplicates(s) == \A i, j \in 1..Len(s) : s[i] = s[j] => i = j

\* C9: the list ParseMultipleRanges returns for valid specs holds no address
\* string twice, holds every address one of the ParseIPRange calls produced,
\* and is ordered by first occurrence in the concatenation of the per-spec
\* lists in input order.
C9_DedupFirstSeen ==
    (top = "ParseMultipleRanges" /\ ppc = "done" /\ out.state = "ok") =>
        /\ Len(parsed) = Len(inputs)
        /\ NoDuplicates(GetIPs(out.IPs))
        /\ \A i \in 1..Len(parsed) : \A k \in 1..Len(parsed[i]) :
              \E n \in 1..Len(out.IPs) : String(out.IPs[n]) = String(parsed[i][k])
        /\ GetIPs(out.IPs) = FirstOccurrences(GetIPs(Flatten(parsed)))

C9_Witness ==
    /\ top = "ParseMultipleRanges"
    /\ ppc = "done"
    /\ inputs = <<<<Addr(<<192, 168, 1, 1>>)>>, <<Addr(<<192, 168, 1, 1>>)>>,
                  <<Addr(<<192, 168, 1, 2>>)>>>>
    /\ GetIPs(out.IPs) = <<Addr(<<192, 168, 1, 1>>), Addr(<<192, 168, 1, 2>>)>>

\* The input of TestParseMultipleRanges' "Mixed formats".
MixedFormats ==
    << <<Addr(<<192, 168, 1, 1>>)>>,
       <<Addr(<<10, 0, 0, 0>>), Slash, Num(30)>>,
       <<Addr(<<172, 16, 0, 1>>), Dash, Addr(<<172, 16, 0, 3>>)>> >>

\* No address string occurs in two of the lists.
PairwiseDisjoint(lists) ==
    \A i, k \in 1..Len(lists) :
        i # k => \A a \in 1..Len(lists[i]) : \A b \in 1..Len(lists[k]) :
                    String(lists[i][a]) # String(lists[k][b])

SumCounts(lists) == SumOver([i \in 1..Len(lists) |-> Count(lists[i])], 1..Len(lists))

\* C19: on ["192.168.1.1", "10.0.0.0/30", "172.16.0.1-172.16.0.3"]
\* ParseMultipleRanges returns exactly 7 unique addresses, 1 + 3 + 3; and
\* whenever the lists ParseIPRange returned for the specs are pairwise
\* disjoint, the merged count is the sum of their counts.
C19_MixedCountIsSum ==
    (top = "ParseMultipleRanges" /\ ppc = "done") =>
        /\ inputs = MixedFormats =>
              /\ out.state = "ok"
              /\ Count(out.IPs) = 7
              /\ NoDuplicates(GetIPs(out.IPs))
              /\ <<Count(parsed[1]), Count(parsed[2]), Count(parsed[3])>> = <<1, 3, 3>>
        /\ (out.state = "ok" /\ PairwiseDisjoint(parsed)) =>
              Count(out.IPs) = SumCounts(parsed)

C19_Witness ==
    /\ top = "ParseMultipleRanges"
    /\ ppc = "done"
    /\ inputs = MixedFormats
    /\ GetIPs(out.IPs) = <<Addr(<<192, 168, 1, 1>>), Addr(<<10, 0, 0, 0>>),
                           Addr(<<10, 0, 0, 1>>), Addr(<<10, 0, 0, 2>>),
                           Addr(<<172, 16, 0, 1>>), Addr(<<172, 16, 0, 2>>),
                           Addr(<<172, 16, 0, 3>>)>>

Invalid(k) == Classify(inputs[k]).kind = "err"

FirstInvalid == CHOOSE k \in 1..Len(inputs) : Invalid(k) /\ \A m \in 1..(k - 1) : ~Invalid(m)

\* C10: when a spec of the input is invalid, ParseMultipleRanges returns an
\* error and no list; the error is that of the first invalid spec in input
\* order and names that spec.
C10_FirstInvalidSpecFails ==
    (top = "ParseMultipleRanges" /\ \E k \in 1..Len(inputs) : Invalid(k)) =>
        /\ ppc # "oom"
        /\ ppc = "done" =>
              /\ out.state = "err"
              /\ out.IPs = <<>>
              /\ out.err = Err("error parsing", inputs[FirstInvalid])
                           \o Classify(inputs[FirstInvalid]).err

\* The same for the inputs whose specs before the first invalid one all have
\* an expansion that ends (C10 apart from the endless loops of C21 and C22).
Endless(s) ==
    \/ IsRange4(s) /\ s[3].b = <<255, 255, 255, 255>> /\ ~BytesGreater(s[1].b, s[3].b)
    \/ IsCIDR4(s) /\ s[3].n = 0

ErrorOfFirstInvalidUnlessEndless ==
    (\A m \in 1..Len(inputs) : (\A n \in 1..m : ~Invalid(n)) => ~Endless(inputs[m]))
        => C10_FirstInvalidSpecFails

----------------------------------------------------------------------------
(* ParseIPRange and ParseMultipleRanges as functions, for their callers.   *)
(* cap is the memory of the process in addresses: a loop that asks for     *)
(* more is killed ("oom").                                                 *)

\* for ip := ...; ipNet.Contains(ip); inc(ip) { ips = append(ips, duplicateIP(ip)) }
RECURSIVE cidrLoop(_, _, _, _)
cidrLoop(ipNet, ip, list, cap) ==
    IF ~Contains(ipNet, ip) THEN [oom |-> FALSE, IPs |-> list]
    ELSE IF Len(list) >= cap THEN [oom |-> TRUE, IPs |-> list]
    ELSE cidrLoop(ipNet, inc(ip), Append(list, duplicateIP(ip)), cap)

\* for i := startInt; i <= endInt; i++ { ips = append(ips, uint32ToIP(i)) }
RECURSIVE rangeLoop(_, _, _, _)
rangeLoop(i, endInt, list, cap) ==
    IF U32Greater(i, endInt) THEN [oom |-> FALSE, IPs |-> list]
    ELSE IF Len(list) >= cap THEN [oom |-> TRUE, IPs |-> list]
    ELSE rangeLoop(U32Inc(i), endInt, Append(list, uint32ToIP(i)), cap)

Killed == [state |-> "oom", err |-> NoError, IPs |-> <<>>]

ParseIPRange(input, cap) ==
    LET k == Classify(input)
    IN  CASE k.kind = "err" -> Returned(k.err, <<>>)
          [] k.kind = "single" -> Returned(NoError, <<k.ip>>)
          [] k.kind = "cidr" ->
                LET l == cidrLoop(k.net, MaskIP(k.net.IP, k.net.Mask), <<>>, cap)
                IN  IF l.oom THEN Killed
                    ELSE Returned(NoError, TrimLast(TrimFirst(l.IPs), k.net))
          [] OTHER ->
                LET l == rangeLoop(k.start, k.end, <<>>, cap)
                IN  IF l.oom THEN Killed ELSE Returned(NoError, l.IPs)

RECURSIVE multiLoop(_, _, _, _)
multiLoop(specs, all, seen, cap) ==
    IF specs = <<>> THEN Returned(NoError, all)
    ELSE LET r == ParseIPRange(Head(specs), cap)
         IN  IF r.state = "oom" THEN Killed
             ELSE IF r.err # NoError
             THEN Returned(Err("error parsing", Head(specs)) \o r.err, <<>>)
             ELSE LET m == MergeInto(r.IPs, all, seen)
                  IN  multiLoop(Tail(specs), m.all, m.seen, cap)

ParseMultipleRanges(specs, cap) == multiLoop(specs, <<>>, {}, cap)

\* The text of an address as a Go string (the dispatcher's ip), dotted-quad
\* for IPv4 and the lexeme's bytes in brackets otherwise.
Text(a) ==
    IF Len(a.b) = 4
    THEN ToString(a.b[1]) \o "." \o ToString(a.b[2]) \o "." \o ToString(a.b[3])
         \o "." \o ToString(a.b[4])
    ELSE "[" \o ToString(a.b) \o "]"

----------------------------------------------------------------------------
(* internal/output/formatter.go: what the formatters write to stdout, as   *)
(* lines [kind, who, text, nums]: who is <<IP, Port, Command>> on a line   *)
(* that lists a Result, text its words, nums the numbers it shows.         *)

Line(kind, who, text, nums) == [kind |-> kind, who |-> who, text |-> text, nums |-> nums]

Who(r) == <<r.IP, r.Port, r.Command>>

successCount(rs) == Cardinality({k \in 1..Len(rs) : rs[k].Error = NoError})
errorCount(rs) == Cardinality({k \in 1..Len(rs) : rs[k].Error # NoError})

RECURSIVE Concat(_)
Concat(ss) == IF ss = <<>> THEN <<>> ELSE Head(ss) \o Concat(Tail(ss))

\* JSONFormatter.Format: json.Marshal of the slice, one object per Result
\* with the keys its tags keep (response and error are omitempty).
JSONObject(r) ==
    [keys |-> {"ip", "port", "command", "duration"}
                \cup (IF r.Response # NoResponse THEN {"response"} ELSE {})
                \cup (IF r.Error # NoError THEN {"error"} ELSE {}),
     ip |-> r.IP, port |-> r.Port, command |-> r.Command, response |-> r.Response,
     error |-> r.Error, duration |-> r.Duration]

JSONFormat(rs, pretty) ==
    << Line("json", <<>>, [k \in 1..Len(rs) |-> JSONObject(rs[k])],
            <<IF pretty THEN 2 ELSE 0>>) >>

\* ColorFormatter.Format: one Result's lines
ColorEntry(r, verbose) ==
    IF r.Error # NoError
    THEN IF verbose
         THEN << Line("entry", Who(r), <<"failed">>, <<>>),
                 Line("error", Who(r), r.Error, <<>>),
                 Line("duration", Who(r), <<r.Duration>>, <<>>) >>
         ELSE <<>>
    ELSE << Line("entry", Who(r), <<"ok">>, <<>>) >>
         \o (IF verbose THEN << Line("duration", Who(r), <<r.Duration>>, <<>>) >> ELSE <<>>)
         \o << Line("response", Who(r), r.Response, <<>>) >>

ColorFormat(rs, verbose) ==
    << Line("banner", <<>>, <<"=== CGMiner API Results ===">>, <<>>),
       IF verbose \/ errorCount(rs) = 0
       THEN Line("totals", <<>>, <<"Total", "Success", "Failed">>,
                 <<Len(rs), successCount(rs), errorCount(rs)>>)
       ELSE Line("totals", <<>>, <<"Total", "Success">>, <<Len(rs), successCount(rs)>>) >>
    \o Concat([i \in 1..Len(rs) |->
                  ColorEntry(rs[i], verbose)
                  \o (IF i < Len(rs) THEN << Line("blank", <<>>, <<>>, <<>>) >> ELSE <<>>)])
    \o << Line("banner", <<>>, <<"=== Summary ===">>, <<>>),
          Line("hosts", <<>>, <<"Command executed on hosts">>, <<Len(rs)>>) >>
    \o (IF successCount(rs) > 0
        THEN << Line("summary", <<>>, <<"Success">>, <<successCount(rs)>>) >> ELSE <<>>)
    \o (IF errorCount(rs) > 0 /\ verbose
        THEN << Line("summary", <<>>, <<"Failed">>, <<errorCount(rs)>>) >> ELSE <<>>)

\* TableFormatter.Format: one Result's row, if it gets one
TableRow(r, verbose) ==
    IF r.Error # NoError /\ ~verbose THEN <<>>
    ELSE << Line("entry", Who(r),
                 IF r.Error # NoError THEN <<"Failed", r.Duration>> \o r.Error
                 ELSE <<"Success", r.Duration>> \o (IF verbose THEN r.Response ELSE <<>>),
                 <<>>) >>

TableFormat(rs, verbose) ==
    << Line("header", <<>>, <<"IP", "Port", "Command", "Status", "Duration", "Details">>, <<>>),
       Line("header", <<>>, <<"---", "----", "-------", "------", "--------", "-------">>, <<>>) >>
    \o Concat([i \in 1..Len(rs) |-> TableRow(rs[i], verbose)])
    \o << IF verbose
          THEN Line("totals", <<>>, <<"Total", "Success", "Failed">>,
                    <<Len(rs), successCount(rs), errorCount(rs)>>)
          ELSE Line("totals", <<>>, <<"Total", "Success">>, <<Len(rs), successCount(rs)>>) >>

\* strings.ToLower on the names the flag is given
ToLower(name) ==
    CASE name = "JSON" -> "json" [] name = "Table" -> "table" [] OTHER -> name

\* GetFormatter(format, verbose).Format(results): what is written; every
\* formatter of the three returns nil.
Format(format, verbose, rs) ==
    CASE ToLower(format) = "json" -> JSONFormat(rs, verbose)
      [] ToLower(format) = "table" -> TableFormat(rs, verbose)
      [] OTHER -> ColorFormat(rs, verbose)

----------------------------------------------------------------------------
(* cmd/root.go: executeCommand, one invocation of a subcommand             *)
(* (specification SpecCLI)                                                 *)

MaxFlags == 2        \* the most --ips values of an invocation
CliCap == 8          \* the memory of an invocation, in addresses

\* The values --ips is given.
CLISpecs ==
    { <<Addr(<<10, 0, 0, 1>>)>>,
      <<Addr(<<10, 0, 0, 2>>)>>,
      <<Addr(<<10, 0, 0, 1>>), Dash, Addr(<<10, 0, 0, 2>>)>>,
      <<Addr(<<10, 0, 0, 0>>), Slash, Num(30)>>,
      <<Addr(<<0, 0, 0, 0>>), Slash, Num(32)>>,
      <<Addr(<<0, 0, 0, 0>>), Slash, Num(0)>>,
      <<Word("invalid"), Dash, Word("ip")>> }

CLIWorkers == {-1, 0, 2, 255}
CLITimeouts == {0, 2}
CLIFormats == {"color", "table", "json", "JSON"}
CLICommands == { <<"summary", 0>>, <<"switchpool", -1>>, <<"switchpool", 1>> }

InitCLI ==
    /\ \E cmd \in CLICommands :
          cliIn \in [ipRanges : SeqsUpTo(CLISpecs, MaxFlags), workers : CLIWorkers,
                     timeout : CLITimeouts, outputFormat : CLIFormats,
                     verbose : BOOLEAN, command : {cmd[1]}, poolID : {cmd[2]}]
    /\ cliOut = NoExit
    /\ ClockIdle
    /\ DispatcherIdle
    /\ NewClientIdle
    /\ JobIdle
    /\ ParserIdle

\* a / b on Go ints, b # 0: the quotient truncated toward zero
GoDiv(a, b) ==
    CASE a >= 0 /\ b > 0 -> a \div b
      [] a >= 0 /\ b < 0 -> -(a \div (-b))
      [] a < 0 /\ b > 0 -> -((-a) \div b)
      [] OTHER -> (-a) \div (-b)

\* params as executeCommand fills it for the subcommands of CLICommands
CLIParams(flags) ==
    IF flags.command \in {"switchpool", "enablepool", "disablepool", "removepool"}
    THEN PoolParam(flags.poolID)
    ELSE NoParams

\* time.Duration(timeout)*time.Second*time.Duration(len(ips)/workers+1), in
\* seconds, for workers # 0
Deadline(flags, n) == flags.timeout * (GoDiv(n, flags.workers) + 1)

Perms(n) == {f \in [1..n -> 1..n] : \A i, k \in 1..n : f[i] = f[k] => i = k}

Ended(state, err, report, stdout) ==
    [state |-> state, err |-> err, report |-> report, stdout |-> stdout]

\* executeCommand(command).  ExecuteCommand's report is one Result per host
\* in the order the workers sent them (order), "context cancelled" for the
\* jobs selected after the deadline (late: all of them when the deadline is
\* not in the future), executeJob's otherwise; a job that panics ends the
\* process, and so does the division by a --workers of 0.
CallExecuteCommand ==
    /\ cliOut.state = "none"
    /\ \E r \in {ParseMultipleRanges(cliIn.ipRanges, CliCap)} :
       \E hostIPs \in {[i \in 1..Len(r.IPs) |-> Text(GetIPs(r.IPs)[i])]} :
       LET f == cliIn
           n == Len(hostIPs)
           notice == IF f.outputFormat # "json"
                     THEN << Line("notice", <<>>, <<"Executing on hosts", f.command>>, <<n>>) >>
                     ELSE <<>>
       IN  IF Len(f.ipRanges) = 0
           THEN cliOut' = Ended("err", Err("no IP ranges specified", <<>>), <<>>, <<>>)
           ELSE IF r.state = "oom"
           THEN cliOut' = Ended("killed", NoError, <<>>, <<>>)
           ELSE IF r.err # NoError
           THEN cliOut' = Ended("err", Err("failed to parse IP ranges:", <<>>) \o r.err,
                                <<>>, <<>>)
           ELSE IF n = 0
           THEN cliOut' = Ended("err", Err("no valid IPs in specified ranges", <<>>),
                                <<>>, <<>>)
           ELSE IF f.workers = 0
           THEN cliOut' = Ended("panic", Err("integer divide by zero", <<>>), <<>>, notice)
           ELSE LET deadline == Deadline(f, n)
                    params0 == CLIParams(f)
                IN  \E order \in Perms(n) :
                    \E late \in IF deadline <= 0 THEN {1..n} ELSE SUBSET (1..n) :
                    \E js \in {[i \in 1..n |->
                                  job(hostIPs[order[i]], DefaultPort, f.command, params0)]} :
                        IF \E i \in (1..n) \ late : Dispatch(js[i]).panic
                        THEN cliOut' = Ended("panic", Err("index out of range", <<>>),
                                             <<>>, notice)
                        ELSE \E rs \in {[i \in 1..n |->
                                           IF i \in late THEN cancelledResult(js[i])
                                           ELSE executeJob(js[i])]} :
                                 cliOut' = Ended("ok", NoError, rs,
                                     notice \o Format(f.outputFormat, f.verbose, rs))
    /\ UNCHANGED <<cliIn, now, left, dispVars, ncVars, jobVars, parseVars>>

NextCLI == CallExecuteCommand

SpecCLI == InitCLI /\ [][NextCLI]_vars

----------------------------------------------------------------------------
(* Claims on executeCommand and the formatters (specification SpecCLI)     *)

\* --ips was given and its specs expand into at least one address.
Expandable ==
    /\ Len(cliIn.ipRanges) > 0
    /\ LET r == ParseMultipleRanges(cliIn.ipRanges, CliCap)
       IN  r.state = "ok" /\ r.IPs # <<>>

\* C17: an invocation that produced a report ends in success (exit code 0),
\* even if every Result of the report is an error; an invocation ends
\* otherwise only when no --ips was given or the specs do not expand into at
\* least one address.
C17_ExitCodeOnlyToolLevel ==
    cliOut.state # "none" =>
        /\ cliOut.report # <<>> => cliOut.state = "ok"
        /\ cliOut.state # "ok" => ~Expandable

\* The same for the invocations in which executeCommand returns.
ExitCodeWhenReturned ==
    cliOut.state \in {"ok", "err"} => C17_ExitCodeOnlyToolLevel

HostsOf(flags) == ParseMultipleRanges(flags.ipRanges, CliCap).IPs

\* C27: an invocation with a worker count <= 0 and a positive timeout still
\* runs, on the effective pool of 10 that NewClient gives it and with a
\* deadline in the future: computing the deadline does not end the process,
\* the deadline is positive, and (for an operation that cannot panic) the
\* report has one Result per host.
C27_NonPositiveWorkersStillRun ==
    (cliOut.state # "none" /\ Expandable /\ cliIn.workers <= 0 /\ cliIn.timeout > 0) =>
        /\ cliOut.err # Err("integer divide by zero", <<>>)
        /\ NewClient(cliIn.timeout, cliIn.workers).workers = DefaultWorkers
        /\ cliIn.workers # 0 => Deadline(cliIn, Len(HostsOf(cliIn))) > 0
        /\ cliIn.command = "summary" =>
              /\ cliOut.state = "ok"
              /\ Len(cliOut.report) = Len(HostsOf(cliIn))

\* The deadline is not in the future, yet the invocation returned a report:
\* every Result of it is "context cancelled".
ExpiredDeadlineCancelsAll ==
    (cliOut.state = "ok" /\ cliIn.workers < 0
        /\ Deadline(cliIn, Len(HostsOf(cliIn))) <= 0) =>
        \A k \in 1..Len(cliOut.report) : cliOut.report[k].Error = ContextCancelled

\* The lines of the output that list the Result r, and whether r's error
\* message is on show.
Listings(stdout, r) ==
    Cardinality({i \in 1..Len(stdout) : stdout[i].kind = "entry" /\ stdout[i].who = Who(r)})
    + SumOver([i \in 1..Len(stdout) |->
                  IF stdout[i].kind = "json"
                  THEN Cardinality({k \in 1..Len(stdout[i].text) :
                                       stdout[i].text[k].ip = r.IP})
                  ELSE 0],
              1..Len(stdout))

ErrorShown(stdout, r) ==
    \E i \in 1..Len(stdout) :
        \/ stdout[i].kind = "error" /\ stdout[i].who = Who(r) /\ stdout[i].text = r.Error
        \/ /\ stdout[i].kind = "entry" /\ stdout[i].who = Who(r)
           /\ stdout[i].text = <<"Failed", r.Duration>> \o r.Error
        \/ /\ stdout[i].kind = "json"
           /\ \E k \in 1..Len(stdout[i].text) :
                 /\ stdout[i].text[k].ip = r.IP
                 /\ "error" \in stdout[i].text[k].keys
                 /\ stdout[i].text[k].error = r.Error

\* Every line of totals counts the failed Results as such.
FailuresInTotals(stdout, rs) ==
    \A i \in 1..Len(stdout) :
        stdout[i].kind = "totals" =>
            /\ stdout[i].text = <<"Total", "Success", "Failed">>
            /\ stdout[i].nums = <<Len(rs), successCount(rs), errorCount(rs)>>

\* C18: in each format and in both verbose and non-verbose mode the output
\* lists every Result of the report exactly once, shows every failed
\* Result's error message, and counts the failed Results in its totals.
C18_EveryResultRendered ==
    cliOut.state = "ok" =>
        /\ \A k \in 1..Len(cliOut.report) :
              /\ Listings(cliOut.stdout, cliOut.report[k]) = 1
              /\ cliOut.report[k].Error # NoError =>
                    ErrorShown(cliOut.stdout, cliOut.report[k])
        /\ FailuresInTotals(cliOut.stdout, cliOut.report)

\* The same for the verbose mode of color and table and for json.
RenderedWhenVerboseOrJSON ==
    (cliIn.verbose \/ ToLower(cliIn.outputFormat) = "json") => C18_EveryResultRendered

----------------------------------------------------------------------------
(* executeCommand's run under its deadline (specification SpecDeadline).   *)
(* The clock counts seconds; a protocol call takes 0..timeout of them, the *)
(* steps of the Go code between the calls take none.  The clock's values   *)
(* are upper bounds of the real instants, so the context counts as expired *)
(* only once the clock is past the deadline.                               *)

\* The values --ips is given: 1, 2, 3 and 4 hosts.
DeadlineSpecs ==
    { <<Addr(<<10, 0, 0, 1>>)>>,
      <<Addr(<<10, 0, 0, 1>>), Dash, Addr(<<10, 0, 0, 2>>)>>,
      <<Addr(<<10, 0, 0, 3>>), Dash, Addr(<<10, 0, 0, 5>>)>>,
      <<Addr(<<10, 0, 0, 3>>), Dash, Addr(<<10, 0, 0, 6>>)>> }

DeadlineWorkers == {1, 2}
DeadlineTimeouts == {1, 2}
DeadlineCommands == { <<"summary", 0>>, <<"switchpool", 1>> }

\* executeCommand up to its call of ExecuteCommand, and that call's entry
InitDeadline ==
    /\ \E cmd \in DeadlineCommands :
          cliIn \in [ipRanges : {<<s>> : s \in DeadlineSpecs}, workers : DeadlineWorkers,
                     timeout : DeadlineTimeouts, outputFormat : {"json"},
                     verbose : {FALSE}, command : {cmd[1]}, poolID : {cmd[2]}]
    /\ cliOut = NoExit
    /\ now = 0
    /\ c = NewClient(cliIn.timeout, cliIn.workers)
    /\ ips = [i \in 1..Len(HostsOf(cliIn)) |-> Text(GetIPs(HostsOf(cliIn))[i])]
    /\ command = cliIn.command
    /\ params = CLIParams(cliIn)
    /\ ctxDone = FALSE
    /\ preCancelled = FALSE
    /\ mpc = "spawn"
    /\ spawned = 0
    /\ enq = 0
    /\ jobs = <<>>
    /\ jobsClosed = FALSE
    /\ results = <<>>
    /\ resultsClosed = FALSE
    /\ wg = 0
    /\ wpc = [w \in 1..c.workers |-> "unborn"]
    /\ wjob = [w \in 1..c.workers |-> NoJob]
    /\ left = [w \in 1..c.workers |-> 0]
    /\ invoked = [h \in {ips[k] : k \in 1..Len(ips)} |-> 0]
    /\ calls = EmptyBag
    /\ allResults = <<>>
    /\ NewClientIdle
    /\ JobIdle
    /\ ParserIdle

\* The seconds executeJob(j) may take: each of its protocol calls ends, with
\* an answer or an error, within the per-call timeout c.timeout.
JobTimes(j) == 0..(Len(Dispatch(j).wire) * c.timeout)

\* the select of the worker, and on default the entry into executeJob
SelectAt(w) ==
    /\ Running
    /\ wpc[w] = "select"
    /\ IF ctxDone
       THEN /\ Send(w, cancelledResult(wjob[w]))
            /\ UNCHANGED <<invoked, left>>
       ELSE /\ wpc' = [wpc EXCEPT ![w] = "exec"]
            /\ invoked' = [invoked EXCEPT ![wjob[w].ip] = @ + 1]
            /\ \E d \in JobTimes(wjob[w]) : left' = [left EXCEPT ![w] = d]
            /\ UNCHANGED <<mpc, results>>
    /\ UNCHANGED <<c, ips, command, params, ctxDone, preCancelled, spawned,
                   enq, jobs, jobsClosed, resultsClosed, wg, wjob,
                   calls, allResults, ncVars, jobVars, cliIn, cliOut, now,
                   parseVars>>

\* executeJob returns when its calls have ended
ExecuteAt(w) ==
    /\ left[w] = 0
    /\ Execute(w)

\* One second passes while every live worker is inside a protocol call and
\* ExecuteCommand waits for them.
Tick ==
    /\ mpc = "wait"
    /\ now <= Deadline(cliIn, Len(ips)) \/ ctxDone
    /\ \A w \in Pool : wpc[w] = "exited" \/ (wpc[w] = "exec" /\ left[w] > 0)
    /\ \E w \in Pool : wpc[w] = "exec"
    /\ now' = now + 1
    /\ left' = [w \in Pool |-> IF wpc[w] = "exec" THEN left[w] - 1 ELSE left[w]]
    /\ UNCHANGED <<dispVars, ncVars, jobVars, cliIn, cliOut, parseVars>>

\* The deadline of context.WithTimeout passes.
DeadlineExceeded ==
    /\ Running
    /\ ~ctxDone
    /\ now > Deadline(cliIn, Len(ips))
    /\ ctxDone' = TRUE
    /\ UNCHANGED <<c, ips, command, params, preCancelled, mpc, spawned, enq,
                   jobs, jobsClosed, results, resultsClosed, wg, wpc, wjob,
                   invoked, calls, allResults, ncVars, jobVars, cliVars,
                   parseVars>>

NextDeadline ==
    \/ Spawn
    \/ Enqueue
    \/ CloseJobs
    \/ WaitAndClose
    \/ Collect
    \/ \E w \in Pool : Receive(w)
    \/ \E w \in Pool : Exit(w)
    \/ \E w \in Pool : SelectAt(w)
    \/ \E w \in Pool : ExecuteAt(w)
    \/ Tick
    \/ DeadlineExceeded

SpecDeadline == InitDeadline /\ [][NextDeadline]_vars

Cancelled(rs) == {k \in 1..Len(rs) : rs[k].Error = ContextCancelled}

\* C29: under the deadline timeout * (N / W + 1) of N hosts and W > 0
\* workers, with every protocol call ending within the per-call timeout, no
\* host is reported "context cancelled", whatever the command, the pool
\* commands with their two calls per job included.
C29_DeadlineCoversAllJobs ==
    cliIn.workers > 0 =>
        /\ Cancelled(results) = {}
        /\ Cancelled(allResults) = {}

\* The same for the commands that make one protocol call per job.
DeadlineCoversOneCallJobs ==
    (cliIn.workers > 0 /\ cliIn.command \notin PoolCommands) =>
        /\ Cancelled(results) = {}
        /\ Cancelled(allResults) = {}

\* The same for at most three hosts.
DeadlineCoversThreeHosts ==
    (cliIn.workers > 0 /\ Len(ips) <= 3) =>
        /\ Cancelled(results) = {}
        /\ Cancelled(allResults) = {}

====
